---- MODULE Spec2Model ----
(***************************************************************************)
(* A model of the lifecycle tracker of a Mars session                      *)
(* (mars/services/lifecycle/supervisor/tracker.py): the reference counts   *)
(* of tileables and chunks, the tracking table, and the removal coroutine  *)
(* (_remove_chunks) that a decref returns and that runs interleaved with   *)
(* later messages of the actor.                                            *)
(***************************************************************************)
EXTENDS Integers, Sequences, FiniteSets, TLC

\* ------------------------------------------------------------------ bounds

\* Largest reference count a call may produce.
MaxRef == 2
\* Longest key list of a call, and longest chunk list of a tileable.
MaxLen == 2
\* Removal coroutines of decrefs that may be in flight at once.
MaxRemovals == 1

TileableKeys == {"t1", "t2"}
ChunkKeys == {"c1", "c2"}
Addresses == {"n1", "n2"}

RECURSIVE SeqsOfLen(_, _)
SeqsOfLen(S, n) ==
    IF n = 0 THEN {<<>>}
    ELSE {Append(s, x) : s \in SeqsOfLen(S, n - 1), x \in S}

SeqsUpTo(S, n) == UNION {SeqsOfLen(S, m) : m \in 0..n}

\* The key lists a caller passes to the counting calls.
ChunkBatches == SeqsUpTo(ChunkKeys, MaxLen) \ {<<>>}
TileableBatches == SeqsUpTo(TileableKeys, MaxLen) \ {<<>>}

\* The chunk lists a tileable is tracked with: each chunk is named once,
\* and a tileable may have no chunk.
ChunkLists ==
    {s \in SeqsUpTo(ChunkKeys, MaxLen) :
        \A i, j \in 1..Len(s) : s[i] = s[j] => i = j}

\* A band is (address, device); a chunk's meta lists the bands holding it.
Band(addr) == <<addr, "numa-0">>
BandLists == {<<Band("n1")>>, <<Band("n2")>>, <<Band("n1"), Band("n2")>>}

Range(s) == {s[i] : i \in 1..Len(s)}

\* ------------------------------------------------------------------- state

VARIABLES
    tileable_key_to_chunk_keys, \* dict: tileable key -> chunk key list
    tileable_ref_counts,        \* defaultdict(0): tileable key -> count
    chunk_ref_counts,           \* defaultdict(0): chunk key -> count
    meta,                       \* Metadata Directory: chunk key -> bands
    removals,                   \* the _remove_chunks coroutines, by slot
    result,                     \* outcome of the last message handled
    destroyed,                  \* __pre_destroy__ has been entered
    storage_deletes,            \* (address, key) -> storage deletes issued
    meta_deletes,               \* key -> metadata deletes issued
    scenario                    \* the calls of a scripted client, if any

vars == <<tileable_key_to_chunk_keys, tileable_ref_counts, chunk_ref_counts,
          meta, removals, result, destroyed, storage_deletes, meta_deletes,
          scenario>>

\* ------------------------------------------------------------ dictionaries

\* The value a dict yields for a key it may not hold.  The two count tables
\* are defaultdict(lambda: 0): a key never stored reads 0, and nothing in the
\* tracker tells an entry of 0 from no entry (every scan of the items keeps
\* ref_count > 0 only), so a count table is the function of its reads.
Get(d, k) == IF k \in DOMAIN d THEN d[k] ELSE 0

\* d[k] = v
Put(d, k, v) == [x \in DOMAIN d \cup {k} |-> IF x = k THEN v ELSE d[x]]

EmptyDict == [x \in {} |-> 0]

\* ----------------------------------------------------- the count handlers

\* Mutant: every write adds one to the count read when the call started (the
\* read-modify-write of a key named twice loses an update).
incref_chunks_lost(counts, chunk_keys) ==
    [k \in DOMAIN counts \cup {chunk_keys[i] : i \in 1..Len(chunk_keys)} |->
        IF \E i \in 1..Len(chunk_keys) : chunk_keys[i] = k
        THEN (IF k \in DOMAIN counts THEN counts[k] ELSE 0) + 1
        ELSE counts[k]]

RECURSIVE incref_chunks(_, _)
incref_chunks(counts, chunk_keys) ==
    IF chunk_keys = <<>> THEN counts
    ELSE incref_chunks(Put(counts, Head(chunk_keys),
                           Get(counts, Head(chunk_keys)) + 1),
                       Tail(chunk_keys))

\* The loop of _get_remove_chunk_keys: the count is decremented, then the
\* assertion is evaluated on the decremented count; a failed assertion
\* leaves the loop with the table as it stands and no list returned.
RECURSIVE get_remove_loop(_, _, _)
get_remove_loop(counts, chunk_keys, to_remove_chunk_keys) ==
    IF chunk_keys = <<>>
    THEN [counts |-> counts, to_remove |-> to_remove_chunk_keys,
          raised |-> "none"]
    ELSE LET chunk_key == Head(chunk_keys)
             decremented == Put(counts, chunk_key, Get(counts, chunk_key) - 1)
             ref_count == decremented[chunk_key]
         IN  IF ~(ref_count >= 0)
             THEN [counts |-> decremented, to_remove |-> <<>>,
                   raised |-> "AssertionError"]
             ELSE get_remove_loop(decremented, Tail(chunk_keys),
                                  IF ref_count = 0
                                  THEN Append(to_remove_chunk_keys, chunk_key)
                                  ELSE to_remove_chunk_keys)

\* Mutant: the count is held at 0 instead of being asserted on.
RECURSIVE get_remove_loop_clamped(_, _, _)
get_remove_loop_clamped(counts, chunk_keys, to_remove_chunk_keys) ==
    IF chunk_keys = <<>>
    THEN [counts |-> counts, to_remove |-> to_remove_chunk_keys,
          raised |-> "none"]
    ELSE LET chunk_key == Head(chunk_keys)
             old == Get(counts, chunk_key)
             ref_count == IF old > 0 THEN old - 1 ELSE 0
         IN  get_remove_loop_clamped(
                 Put(counts, chunk_key, ref_count), Tail(chunk_keys),
                 IF ref_count = 0 /\ old > 0
                 THEN Append(to_remove_chunk_keys, chunk_key)
                 ELSE to_remove_chunk_keys)

_get_remove_chunk_keys_clamped(counts, chunk_keys) ==
    get_remove_loop_clamped(counts, chunk_keys, <<>>)

\* Mutant: a key whose count lands at 0 is not appended to the list.
_get_remove_chunk_keys_leaky(counts, chunk_keys) ==
    [get_remove_loop(counts, chunk_keys, <<>>) EXCEPT !.to_remove = <<>>]

\* Mutant: the list is drawn up after the loop, from the keys of the batch
\* whose count has ended at 0.
_get_remove_chunk_keys_afterwards(counts, chunk_keys) ==
    LET r == get_remove_loop(counts, chunk_keys, <<>>)
    IN  IF r.raised # "none" THEN r
        ELSE [r EXCEPT !.to_remove =
                 SelectSeq(chunk_keys, LAMBDA k : r.counts[k] = 0)]

_get_remove_chunk_keys(counts, chunk_keys) ==
    get_remove_loop(counts, chunk_keys, <<>>)

\* incref_tileables: each key is checked, then counted, in turn.
RECURSIVE incref_tileables(_, _, _, _)
incref_tileables(tracking, tcounts, ccounts, tileable_keys) ==
    IF tileable_keys = <<>>
    THEN [tcounts |-> tcounts, ccounts |-> ccounts, raised |-> "none"]
    ELSE LET tileable_key == Head(tileable_keys) IN
         IF tileable_key \notin DOMAIN tracking
         THEN [tcounts |-> tcounts, ccounts |-> ccounts,
               raised |-> "TileableNotTracked"]
         ELSE incref_tileables(
                  tracking,
                  Put(tcounts, tileable_key, Get(tcounts, tileable_key) + 1),
                  incref_chunks(ccounts, tracking[tileable_key]),
                  Tail(tileable_keys))

\* The loop of decref_tileables, to_remove_chunk_keys accumulating.
RECURSIVE decref_tileables_loop(_, _, _, _, _)
decref_tileables_loop(tracking, tcounts, ccounts, tileable_keys, to_remove_chunk_keys) ==
    IF tileable_keys = <<>>
    THEN [tcounts |-> tcounts, ccounts |-> ccounts,
          to_remove |-> to_remove_chunk_keys, raised |-> "none"]
    ELSE LET tileable_key == Head(tileable_keys) IN
         IF tileable_key \notin DOMAIN tracking
         THEN [tcounts |-> tcounts, ccounts |-> ccounts,
               to_remove |-> <<>>, raised |-> "TileableNotTracked"]
         ELSE LET decremented == Put(tcounts, tileable_key,
                                     Get(tcounts, tileable_key) - 1)
                  r == _get_remove_chunk_keys(ccounts, tracking[tileable_key])
              IN  IF r.raised # "none"
                  THEN [tcounts |-> decremented, ccounts |-> r.counts,
                        to_remove |-> <<>>, raised |-> r.raised]
                  ELSE decref_tileables_loop(
                           tracking, decremented, r.counts,
                           Tail(tileable_keys),
                           to_remove_chunk_keys \o r.to_remove)

decref_tileables(tracking, tcounts, ccounts, tileable_keys) ==
    decref_tileables_loop(tracking, tcounts, ccounts, tileable_keys, <<>>)

\* ------------------------------------------------- the removal coroutine

\* First-occurrence order of a list without its repeats: the key order of a
\* dict filled from the list.
RECURSIVE Dedup(_)
Dedup(s) ==
    IF s = <<>> THEN <<>>
    ELSE <<Head(s)>> \o Dedup(SelectSeq(Tail(s), LAMBDA x : x # Head(s)))

\* key_to_addresses.items() unrolled: (key, address) in the order the
\* double loop over keys and their addresses visits them.
RECURSIVE KeyAddressPairs(_, _)
KeyAddressPairs(keys, metas) ==
    IF keys = <<>> THEN <<>>
    ELSE LET bands == metas[Head(keys)].bands
         IN  [i \in 1..Len(bands) |-> <<Head(keys), bands[i][1]>>]
             \o KeyAddressPairs(Tail(keys), metas)

\* Mutant: a storage API of its own for every (key, address), each with
\* the one key delayed on it.
storage_api_to_deletes_uncached(keys, metas) ==
    LET pairs == KeyAddressPairs(Dedup(keys), metas)
    IN  [i \in 1..Len(pairs) |->
            [addr |-> pairs[i][2], keys |-> <<pairs[i][1]>>]]

\* storage_api_to_deletes: one entry per address (the storage API of an
\* address is cached), in the order the addresses are first met, each with
\* the keys delayed on it.
storage_api_to_deletes(keys, metas) ==
    LET pairs == KeyAddressPairs(Dedup(keys), metas)
        addrs == Dedup([i \in 1..Len(pairs) |-> pairs[i][2]])
        KeysAt(a) == LET at == SelectSeq(pairs, LAMBDA p : p[2] = a)
                     IN  [i \in 1..Len(at) |-> at[i][1]]
    IN  [i \in 1..Len(addrs) |-> [addr |-> addrs[i], keys |-> KeysAt(addrs[i])]]

\* Mutant: a key with no meta ends the removal of the whole list.
new_to_remove_chunk_keys_fatal(keys, metas) ==
    IF \A i \in 1..Len(keys) : keys[i] \in DOMAIN metas THEN keys ELSE <<>>

\* The filter of the keys whose meta is None (error='ignore' gives None for
\* a key the meta service does not hold).
new_to_remove_chunk_keys(keys, metas) ==
    SelectSeq(keys, LAMBDA k : k \in DOMAIN metas)

\* The coroutine _remove_chunks(to_remove_chunk_keys), created and not yet
\* run.  A removal of no key reads nothing and deletes nothing: every step
\* of it leaves every variable unchanged, so it is not kept.
Schedule(rs, kind, to_remove_chunk_keys) ==
    IF to_remove_chunk_keys = <<>> THEN rs
    ELSE Append(rs, [kind |-> kind, pc |-> "get_meta",
                     keys |-> to_remove_chunk_keys,
                     batches |-> <<>>, sent |-> 0])

\* The removals of decrefs in flight are capped.
Room(rs, to_remove_chunk_keys) ==
    \/ to_remove_chunk_keys = <<>>
    \/ Cardinality({i \in DOMAIN rs : rs[i].kind = "decref"}) < MaxRemovals

Slots == 1..(MaxRemovals + 1)

\* The coroutine ends, returning or raising.  The removal of a decref is
\* over for the tracker (its outcome goes to the caller of the decref);
\* that of the teardown stays as it ended.
Finish(rs, i, pc) ==
    IF rs[i].kind = "teardown" THEN [rs EXCEPT ![i].pc = pc]
    ELSE [j \in 1..(Len(rs) - 1) |-> IF j < i THEN rs[j] ELSE rs[j + 1]]

\* One more delete issued: none, one, more than one.
Bump(n) == IF n = 0 THEN 1 ELSE 2

\* The counts a call may produce are capped.
InBounds(counts) == \A k \in DOMAIN counts : counts[k] <= MaxRef

\* A run is followed up to its first negative count: the counting calls are
\* made on tables that hold none.
NoDeficit ==
    /\ \A k \in DOMAIN tileable_ref_counts : tileable_ref_counts[k] >= 0
    /\ \A k \in DOMAIN chunk_ref_counts : chunk_ref_counts[k] >= 0

\* ---------------------------------------------------------------- actions

NoScenario == [name |-> "none"]

InitTracker ==
    /\ tileable_key_to_chunk_keys = EmptyDict
    /\ tileable_ref_counts = [k \in TileableKeys |-> 0]
    /\ chunk_ref_counts = [k \in ChunkKeys |-> 0]
    /\ meta = EmptyDict
    /\ removals = <<>>
    /\ result = "none"
    /\ destroyed = FALSE
    /\ storage_deletes = [p \in Addresses \X ChunkKeys |-> 0]
    /\ meta_deletes = [k \in ChunkKeys |-> 0]

Init == InitTracker /\ scenario = NoScenario

\* A task of the session stores a chunk and records its bands.
SetChunkMeta(chunk_key, bands) ==
    /\ ~destroyed
    /\ chunk_key \notin DOMAIN meta
    /\ meta_deletes[chunk_key] = 0
    /\ meta' = Put(meta, chunk_key, [bands |-> bands])
    /\ UNCHANGED <<scenario, tileable_key_to_chunk_keys, tileable_ref_counts,
                   chunk_ref_counts, removals, result, destroyed,
                   storage_deletes, meta_deletes>>

\* Mutant: the chunks of a key tracked before are added to its list.
track_extending(tracking, tileable_key, chunk_keys) ==
    Put(tracking, tileable_key,
        IF tileable_key \in DOMAIN tracking
        THEN tracking[tileable_key] \o chunk_keys ELSE chunk_keys)

\* track: self._tileable_key_to_chunk_keys[tileable_key] = chunk_keys
track(tracking, tileable_key, chunk_keys) ==
    Put(tracking, tileable_key, chunk_keys)

OnTrack(tileable_key, chunk_keys) ==
    /\ ~destroyed
    /\ tileable_key_to_chunk_keys' =
           track(tileable_key_to_chunk_keys, tileable_key, chunk_keys)
    /\ result' = "none"
    /\ UNCHANGED <<tileable_ref_counts, chunk_ref_counts, meta, removals,
                   destroyed, storage_deletes, meta_deletes>>

Track(tileable_key, chunk_keys) ==
    OnTrack(tileable_key, chunk_keys) /\ UNCHANGED scenario

OnIncrefChunks(chunk_keys) ==
    /\ ~destroyed
    /\ NoDeficit
    /\ LET counts == incref_chunks(chunk_ref_counts, chunk_keys) IN
        /\ InBounds(counts)
        /\ chunk_ref_counts' = counts
    /\ result' = "none"
    /\ UNCHANGED <<tileable_key_to_chunk_keys, tileable_ref_counts,
                   meta, removals, destroyed, storage_deletes, meta_deletes>>

IncrefChunks(chunk_keys) ==
    OnIncrefChunks(chunk_keys) /\ UNCHANGED scenario

\* decref_chunks returns the coroutine _remove_chunks(...) without awaiting
\* it: the removal runs after the handler has returned.
OnDecrefChunks(chunk_keys) ==
    /\ ~destroyed
    /\ NoDeficit
    /\ LET r == _get_remove_chunk_keys(chunk_ref_counts, chunk_keys) IN
        /\ InBounds(r.counts)
        /\ Room(removals, r.to_remove)
        /\ chunk_ref_counts' = r.counts
        /\ removals' = IF r.raised = "none"
                       THEN Schedule(removals, "decref", r.to_remove)
                       ELSE removals
        /\ result' = r.raised
    /\ UNCHANGED <<tileable_key_to_chunk_keys, tileable_ref_counts,
                   meta, destroyed, storage_deletes, meta_deletes>>

DecrefChunks(chunk_keys) ==
    OnDecrefChunks(chunk_keys) /\ UNCHANGED scenario

OnIncrefTileables(tileable_keys) ==
    /\ ~destroyed
    /\ NoDeficit
    /\ LET r == incref_tileables(tileable_key_to_chunk_keys,
                                 tileable_ref_counts, chunk_ref_counts,
                                 tileable_keys) IN
        /\ InBounds(r.tcounts) /\ InBounds(r.ccounts)
        /\ tileable_ref_counts' = r.tcounts
        /\ chunk_ref_counts' = r.ccounts
        /\ result' = r.raised
    /\ UNCHANGED <<tileable_key_to_chunk_keys, meta, removals, destroyed,
                   storage_deletes, meta_deletes>>

IncrefTileables(tileable_keys) ==
    OnIncrefTileables(tileable_keys) /\ UNCHANGED scenario

OnDecrefTileables(tileable_keys) ==
    /\ ~destroyed
    /\ NoDeficit
    /\ LET r == decref_tileables(tileable_key_to_chunk_keys,
                                 tileable_ref_counts, chunk_ref_counts,
                                 tileable_keys) IN
        /\ InBounds(r.tcounts) /\ InBounds(r.ccounts)
        /\ Room(removals, r.to_remove)
        /\ tileable_ref_counts' = r.tcounts
        /\ chunk_ref_counts' = r.ccounts
        /\ removals' = IF r.raised = "none"
                       THEN Schedule(removals, "decref", r.to_remove)
                       ELSE removals
        /\ result' = r.raised
    /\ UNCHANGED <<tileable_key_to_chunk_keys, meta, destroyed,
                   storage_deletes, meta_deletes>>

DecrefTileables(tileable_keys) ==
    OnDecrefTileables(tileable_keys) /\ UNCHANGED scenario

\* get_chunk_meta.batch(..., error='ignore'), the filter of the keys that
\* have no meta, and the grouping of the storage deletes by address.
RemovalGetMeta(i) ==
    /\ i \in DOMAIN removals
    /\ removals[i].pc = "get_meta"
    /\ LET kept == new_to_remove_chunk_keys(removals[i].keys, meta)
           batches == storage_api_to_deletes(kept, meta)
       IN  removals' = [removals EXCEPT ![i] =
               [@ EXCEPT !.keys = kept,
                         !.batches = batches,
                         !.pc = IF batches = <<>> THEN "del_meta"
                                ELSE "delete"]]
    /\ UNCHANGED <<scenario, tileable_key_to_chunk_keys, tileable_ref_counts,
                   chunk_ref_counts, meta, result, destroyed,
                   storage_deletes, meta_deletes>>

\* await storage_api.delete.batch(*deletes) for the next address.
RemovalDelete(i) ==
    /\ i \in DOMAIN removals
    /\ removals[i].pc = "delete"
    /\ LET batch == removals[i].batches[removals[i].sent + 1] IN
        /\ storage_deletes' =
               [p \in DOMAIN storage_deletes |->
                   IF p[1] = batch.addr /\ p[2] \in Range(batch.keys)
                   THEN Bump(storage_deletes[p]) ELSE storage_deletes[p]]
        /\ removals' = [removals EXCEPT ![i] =
               [@ EXCEPT !.sent = @ + 1,
                         !.pc = IF removals[i].sent + 1
                                       = Len(removals[i].batches)
                                THEN "del_meta" ELSE "delete"]]
    /\ UNCHANGED <<scenario, tileable_key_to_chunk_keys, tileable_ref_counts,
                   chunk_ref_counts, meta, result, destroyed, meta_deletes>>

\* Mutant: the failure of a storage delete is swallowed and the removal
\* goes on to the metadata delete.
RemovalDeleteRaises_swallowed(i) ==
    /\ i \in DOMAIN removals
    /\ removals[i].pc = "delete"
    /\ removals' = [removals EXCEPT ![i].pc = "del_meta"]
    /\ UNCHANGED <<scenario, tileable_key_to_chunk_keys, tileable_ref_counts,
                   chunk_ref_counts, meta, result, destroyed,
                   storage_deletes, meta_deletes>>

\* The same await raising (a failure other than not-found, which
\* error='ignore' does not cover): the exception leaves _remove_chunks.
RemovalDeleteRaises(i) ==
    /\ i \in DOMAIN removals
    /\ removals[i].pc = "delete"
    /\ removals' = Finish(removals, i, "raised")
    /\ UNCHANGED <<scenario, tileable_key_to_chunk_keys, tileable_ref_counts,
                   chunk_ref_counts, meta, result, destroyed,
                   storage_deletes, meta_deletes>>

\* await del_chunk_meta.batch(*delete_metas)
RemovalDelMeta(i) ==
    /\ i \in DOMAIN removals
    /\ removals[i].pc = "del_meta"
    /\ meta' = [k \in DOMAIN meta \ Range(removals[i].keys) |-> meta[k]]
    /\ meta_deletes' = [k \in DOMAIN meta_deletes |->
                           IF k \in Range(removals[i].keys)
                           THEN Bump(meta_deletes[k]) ELSE meta_deletes[k]]
    /\ removals' = Finish(removals, i, "done")
    /\ UNCHANGED <<scenario, tileable_key_to_chunk_keys, tileable_ref_counts,
                   chunk_ref_counts, result, destroyed, storage_deletes>>

\* The lists a dict of the given keys may be iterated as.
Orders(S) == {s \in SeqsOfLen(S, Cardinality(S)) : Range(s) = S}

\* __pre_destroy__: the chunks of positive count, in the order of the dict,
\* are handed to _remove_chunks.
PreDestroy ==
    /\ ~destroyed
    /\ destroyed' = TRUE
    /\ \E chunk_keys \in Orders({k \in DOMAIN chunk_ref_counts :
                                    chunk_ref_counts[k] > 0}) :
           removals' = Schedule(removals, "teardown", chunk_keys)
    /\ UNCHANGED <<scenario, tileable_key_to_chunk_keys, tileable_ref_counts,
                   chunk_ref_counts, meta, result, storage_deletes,
                   meta_deletes>>

\* The messages of the tracker while no chunk of the session is stored yet:
\* every removal finds no meta.
Messages ==
    \/ \E t \in TileableKeys, ks \in ChunkLists : Track(t, ks)
    \/ \E ks \in ChunkBatches : IncrefChunks(ks)
    \/ \E ks \in ChunkBatches : DecrefChunks(ks)
    \/ \E ts \in TileableBatches : IncrefTileables(ts)
    \/ \E ts \in TileableBatches : DecrefTileables(ts)
    \/ \E i \in Slots : RemovalGetMeta(i)
    \/ \E i \in Slots : RemovalDelMeta(i)

Next == Messages

Spec == Init /\ [][Next]_vars

\* The chunk messages of the tracker, the tasks storing chunks, the removals
\* and the teardown.
RemovalSteps ==
    \/ \E k \in ChunkKeys, bands \in BandLists : SetChunkMeta(k, bands)
    \/ \E ks \in ChunkBatches : IncrefChunks(ks)
    \/ \E ks \in ChunkBatches : DecrefChunks(ks)
    \/ \E i \in Slots : RemovalGetMeta(i)
    \/ \E i \in Slots : RemovalDelete(i)
    \/ \E i \in Slots : RemovalDeleteRaises(i)
    \/ \E i \in Slots : RemovalDelMeta(i)
    \/ PreDestroy

NextRemoval == RemovalSteps

SpecRemoval == Init /\ [][NextRemoval]_vars

\* ------------------------------------------------- a scripted client (C4)

\* A client tracks t1 with a chunk list, sends n incref_tileables([t1]) and
\* then n decref_tileables([t1]).  Another client works on t2, whose chunks
\* are none of t1's; tasks store chunks and the removals run in between.
Scripted == "t1"
Other == "t2"

InitScripted ==
    /\ InitTracker
    /\ \E chunk_keys \in ChunkLists \ {<<>>}, n \in 1..MaxRef :
           scenario = [name |-> "scripted", chunk_keys |-> chunk_keys,
                       n |-> n, tracked |-> FALSE, increfs |-> 0,
                       decrefs |-> 0, issued |-> <<>>]

ScriptedTrack ==
    /\ scenario.tracked = FALSE
    /\ OnTrack(Scripted, scenario.chunk_keys)
    /\ scenario' = [scenario EXCEPT !.tracked = TRUE]

ScriptedIncref ==
    /\ scenario.tracked
    /\ scenario.increfs < scenario.n
    /\ OnIncrefTileables(<<Scripted>>)
    /\ scenario' = [scenario EXCEPT !.increfs = @ + 1]

\* issued: the key lists of the removals the decrefs of t1 have returned.
ScriptedDecref ==
    /\ scenario.increfs = scenario.n
    /\ scenario.decrefs < scenario.n
    /\ OnDecrefTileables(<<Scripted>>)
    /\ scenario' = [scenario EXCEPT
           !.decrefs = @ + 1,
           !.issued = IF Len(removals') > Len(removals)
                      THEN Append(@, removals'[Len(removals')].keys)
                      ELSE @]

OtherTrack(chunk_keys) ==
    /\ Other \notin DOMAIN tileable_key_to_chunk_keys
    /\ Range(chunk_keys) \cap Range(scenario.chunk_keys) = {}
    /\ OnTrack(Other, chunk_keys)
    /\ UNCHANGED scenario

OtherIncref == OnIncrefTileables(<<Other>>) /\ UNCHANGED scenario

OtherDecref == OnDecrefTileables(<<Other>>) /\ UNCHANGED scenario

NextScripted ==
    \/ ScriptedTrack
    \/ ScriptedIncref
    \/ ScriptedDecref
    \/ \E ks \in ChunkLists : OtherTrack(ks)
    \/ OtherIncref
    \/ OtherDecref
    \/ \E k \in ChunkKeys, bands \in BandLists : SetChunkMeta(k, bands)
    \/ \E i \in Slots : RemovalGetMeta(i)
    \/ \E i \in Slots : RemovalDelete(i)
    \/ \E i \in Slots : RemovalDeleteRaises(i)
    \/ \E i \in Slots : RemovalDelMeta(i)

SpecScripted == InitScripted /\ [][NextScripted]_vars

\* --------------------------------------- clients and a ledger of updates

\* Most increments and decrements of one chunk the ledger follows.
MaxOps == 3

\* How many times a list names a key.
Occurrences(chunk_keys, k) ==
    Cardinality({i \in 1..Len(chunk_keys) : chunk_keys[i] = k})

\* The chunk lists of the tileable keys before the first untracked one: the
\* chunks a tileable call counts before it returns or raises.
RECURSIVE ReachedChunks(_, _)
ReachedChunks(tracking, tileable_keys) ==
    IF tileable_keys = <<>> \/ Head(tileable_keys) \notin DOMAIN tracking
    THEN <<>>
    ELSE tracking[Head(tileable_keys)]
         \o ReachedChunks(tracking, Tail(tileable_keys))

\* The clients of a session send their messages in any order; the ledger
\* notes, for each message delivered, the increments and the decrements it
\* applies to each chunk, and whether a decref has failed; the deliveries are
\* followed up to the first decref that fails.  Each tileable is tracked by
\* one message.
InitLedger ==
    /\ InitTracker
    /\ scenario = [name |-> "ledger",
                   incs |-> [k \in ChunkKeys |-> 0],
                   decs |-> [k \in ChunkKeys |-> 0],
                   failed |-> FALSE]

Noted(field, chunk_keys) ==
    /\ ~scenario.failed
    /\ \A k \in ChunkKeys :
           scenario[field][k] + Occurrences(chunk_keys, k) <= MaxOps
    /\ scenario' = [scenario EXCEPT
           ![field] = [k \in ChunkKeys |-> @[k] + Occurrences(chunk_keys, k)],
           !.failed = @ \/ (field = "decs" /\ result' # "none")]

ClientTrack(tileable_key, chunk_keys) ==
    /\ ~scenario.failed
    /\ tileable_key \notin DOMAIN tileable_key_to_chunk_keys
    /\ OnTrack(tileable_key, chunk_keys)
    /\ UNCHANGED scenario

ClientIncrefChunks(chunk_keys) ==
    OnIncrefChunks(chunk_keys) /\ Noted("incs", chunk_keys)

ClientDecrefChunks(chunk_keys) ==
    OnDecrefChunks(chunk_keys) /\ Noted("decs", chunk_keys)

ClientIncrefTileables(tileable_keys) ==
    /\ OnIncrefTileables(tileable_keys)
    /\ Noted("incs", ReachedChunks(tileable_key_to_chunk_keys, tileable_keys))

ClientDecrefTileables(tileable_keys) ==
    /\ OnDecrefTileables(tileable_keys)
    /\ Noted("decs", ReachedChunks(tileable_key_to_chunk_keys, tileable_keys))

NextLedger ==
    \/ \E t \in TileableKeys, ks \in ChunkLists : ClientTrack(t, ks)
    \/ \E ks \in ChunkBatches : ClientIncrefChunks(ks)
    \/ \E ks \in ChunkBatches : ClientDecrefChunks(ks)
    \/ \E ts \in TileableBatches : ClientIncrefTileables(ts)
    \/ \E ts \in TileableBatches : ClientDecrefTileables(ts)
    \/ \E i \in Slots : RemovalGetMeta(i)
    \/ \E i \in Slots : RemovalDelMeta(i)

SpecLedger == InitLedger /\ [][NextLedger]_vars

\* ------------------------------------------------------------ the queries

\* [self._chunk_ref_counts[chunk_key] for chunk_key in chunk_keys]: the
\* table is a defaultdict, and reading a key it does not hold stores the
\* default, 0, under the key.
get_chunk_ref_counts(counts, chunk_keys) ==
    [counts |-> [k \in DOMAIN counts \cup Range(chunk_keys) |-> Get(counts, k)],
     ret |-> [i \in 1..Len(chunk_keys) |-> Get(counts, chunk_keys[i])]]

get_tileable_ref_counts(counts, tileable_keys) ==
    [counts |-> [k \in DOMAIN counts \cup Range(tileable_keys) |->
                    Get(counts, k)],
     ret |-> [i \in 1..Len(tileable_keys) |-> Get(counts, tileable_keys[i])]]

\* Mutant: every entry of the table is reported.
get_all_chunk_ref_counts_unfiltered(counts) == counts

get_all_chunk_ref_counts(counts) ==
    [k \in {x \in DOMAIN counts : counts[x] > 0} |-> counts[k]]

GetChunkRefCounts(chunk_keys) ==
    /\ ~destroyed
    /\ chunk_ref_counts' =
           get_chunk_ref_counts(chunk_ref_counts, chunk_keys).counts
    /\ result' = "returned"
    /\ UNCHANGED <<scenario, tileable_key_to_chunk_keys, tileable_ref_counts,
                   meta, removals, destroyed, storage_deletes, meta_deletes>>

GetTileableRefCounts(tileable_keys) ==
    /\ ~destroyed
    /\ tileable_ref_counts' =
           get_tileable_ref_counts(tileable_ref_counts, tileable_keys).counts
    /\ result' = "returned"
    /\ UNCHANGED <<scenario, tileable_key_to_chunk_keys, chunk_ref_counts,
                   meta, removals, destroyed, storage_deletes, meta_deletes>>

GetAllChunkRefCounts ==
    /\ ~destroyed
    /\ result' = "returned"
    /\ UNCHANGED <<scenario, tileable_key_to_chunk_keys, tileable_ref_counts,
                   chunk_ref_counts, meta, removals, destroyed,
                   storage_deletes, meta_deletes>>

\* The tracker as constructed: the two count tables hold no key.
InitQueries ==
    /\ tileable_key_to_chunk_keys = EmptyDict
    /\ tileable_ref_counts = EmptyDict
    /\ chunk_ref_counts = EmptyDict
    /\ meta = EmptyDict
    /\ removals = <<>>
    /\ result = "none"
    /\ destroyed = FALSE
    /\ storage_deletes = [p \in Addresses \X ChunkKeys |-> 0]
    /\ meta_deletes = [k \in ChunkKeys |-> 0]
    /\ scenario = [name |-> "queries", incremented |-> {}]

\* The messages between the queries.  Each tileable is tracked by one
\* message and counted by messages of one key; the chunks a message
\* increments are noted.
TrackOnce(tileable_key, chunk_keys) ==
    /\ tileable_key \notin DOMAIN tileable_key_to_chunk_keys
    /\ Track(tileable_key, chunk_keys)

Incremented(chunk_keys) ==
    scenario' = [scenario EXCEPT !.incremented = @ \cup Range(chunk_keys)]

NotedIncrefChunks(chunk_keys) ==
    OnIncrefChunks(chunk_keys) /\ Incremented(chunk_keys)

NotedIncrefTileables(tileable_keys) ==
    /\ OnIncrefTileables(tileable_keys)
    /\ Incremented(ReachedChunks(tileable_key_to_chunk_keys, tileable_keys))

NextQueries ==
    \/ \E t \in TileableKeys, ks \in ChunkLists : TrackOnce(t, ks)
    \/ \E ks \in ChunkBatches : NotedIncrefChunks(ks)
    \/ \E ks \in ChunkBatches : DecrefChunks(ks)
    \/ \E t \in TileableKeys : NotedIncrefTileables(<<t>>)
    \/ \E t \in TileableKeys : DecrefTileables(<<t>>)
    \/ \E ks \in ChunkBatches : GetChunkRefCounts(ks)
    \/ \E ts \in TileableBatches : GetTileableRefCounts(ts)
    \/ GetAllChunkRefCounts
    \/ \E i \in Slots : RemovalGetMeta(i)
    \/ \E i \in Slots : RemovalDelMeta(i)

SpecQueries == InitQueries /\ [][NextQueries]_vars

\* ------------------------------------- the client side: the data cleaner

\* The variables of the tracker, which the client side leaves alone.
trackerVars ==
    <<tileable_key_to_chunk_keys, tileable_ref_counts, chunk_ref_counts, meta,
      removals, result, destroyed, storage_deletes, meta_deletes>>

\* Most times a tileable is attached to sessions.
MaxAttach == 3

\* The tileable objects of a client and the session objects it holds.
Tileables == {"a", "b"}
Sessions == {"s1", "s2"}

\* _cleaner (core/entity/executable.py): _tileable_to_sessions maps a live
\* tileable to its list of _TileableSession, each holding a weak reference
\* to the tileable whose callback cb sends decref(key) to its session if
\* the session object is still alive.  decrefs counts the decref calls each
\* session has received for each tileable.
InitCleaner ==
    /\ InitTracker
    /\ scenario = [name |-> "cleaner",
                   _tileable_to_sessions |-> [t \in {} |-> <<>>],
                   reachable |-> Tileables,
                   live |-> Sessions,
                   decrefs |-> [p \in Sessions \X Tileables |-> 0]]

\* _TileableDataCleaner.register(tileable, session): one more
\* _TileableSession in the list of the tileable, or a list of one.
register(tileable_to_sessions, tileable, session) ==
    IF tileable \in DOMAIN tileable_to_sessions
    THEN [tileable_to_sessions EXCEPT ![tileable] = Append(@, session)]
    ELSE Put(tileable_to_sessions, tileable, <<session>>)

\* tileable._attach_session(session)
AttachSession(tileable, session) ==
    /\ tileable \in scenario.reachable
    /\ session \in scenario.live
    /\ tileable \in DOMAIN scenario._tileable_to_sessions =>
           Len(scenario._tileable_to_sessions[tileable]) < MaxAttach
    /\ scenario' = [scenario EXCEPT
           !._tileable_to_sessions = register(@, tileable, session)]
    /\ UNCHANGED trackerVars

\* The client drops a session object: the weak references to it are dead.
DropSession(session) ==
    /\ session \in scenario.live
    /\ scenario' = [scenario EXCEPT !.live = @ \ {session}]
    /\ UNCHANGED trackerVars

\* The callbacks of the weak references to a tileable, run in turn: each
\* one whose session is alive calls s.decref(key).
RECURSIVE cb(_, _, _, _)
cb(decrefs, live, tileable, sessions) ==
    IF sessions = <<>> THEN decrefs
    ELSE cb(IF Head(sessions) \in live
            THEN [decrefs EXCEPT ![<<Head(sessions), tileable>>] = @ + 1]
            ELSE decrefs,
            live, tileable, Tail(sessions))

\* The client drops its last reference to a tileable: every weak reference
\* to it runs its callback, and the WeakKeyDictionary loses the entry.
DropTileable(tileable) ==
    /\ tileable \in scenario.reachable
    /\ LET sessions == IF tileable \in DOMAIN scenario._tileable_to_sessions
                       THEN scenario._tileable_to_sessions[tileable]
                       ELSE <<>>
       IN  scenario' = [scenario EXCEPT
               !.reachable = @ \ {tileable},
               !.decrefs = cb(@, scenario.live, tileable, sessions),
               !._tileable_to_sessions =
                   [t \in DOMAIN @ \ {tileable} |-> @[t]]]
    /\ UNCHANGED trackerVars

NextCleaner ==
    \/ \E t \in Tileables, s \in Sessions : AttachSession(t, s)
    \/ \E s \in Sessions : DropSession(s)
    \/ \E t \in Tileables : DropTileable(t)

SpecCleaner == InitCleaner /\ [][NextCleaner]_vars

\* --------------------------------- the session: execute and its watcher

\* The lists of tileables a client submits: each tileable is named once.
SubmitLists ==
    {l \in SeqsUpTo(Tileables, MaxLen) \ {<<>>} :
        \A i, j \in 1..Len(l) : l[i] = l[j] => i = j}

\* The errors the remote execution of a task may end with.
Errors == {"TypeError", "ValueError"}

\* The values get_task_progress may return for a task that is running (in
\* hundredths).
RunningProgress == {0, 50}

None == [none |-> TRUE]
NoException == [type |-> "none"]

\* The fetch tileable the task service resolves a submitted tileable to,
\* and the params it carries.
FetchOf(tileable) == <<"fetch", tileable>>
ParamsOf(fetch_tileable) == <<"params", fetch_tileable>>

\* The params a tileable has when the client builds it (a shape may be
\* unknown).
BuiltParams(tileable) == ParamsOf(<<"built", tileable>>)

\* One call of Session.execute(*tileables) and the task it submits.
\*   execute   where the coroutine execute is
\*   submits   calls of submit_tileable_graph made (0, 1, more)
\*   task      the task in the task service
\*   watcher   where the coroutine _run_in_background is
\*   polls     wait_task calls that have returned (0, 1, more)
\*   progress  progress.value, in hundredths
\*   exception what the watcher raised, which awaiting the handle raises
InitSession ==
    /\ InitTracker
    /\ \E tileables \in SubmitLists :
           scenario = [name |-> "session",
                       tileables |-> tileables,
                       execute |-> "start",
                       submits |-> 0,
                       task |-> [state |-> "none", error |-> NoException],
                       watcher |-> "none",
                       polls |-> 0,
                       task_result |-> None,
                       progress |-> 0,
                       exception |-> NoException,
                       _tileable_to_fetch |-> EmptyDict,
                       params |-> [t \in Tileables |-> BuiltParams(t)]]

\* execute up to its await: the graph is submitted to the task service.
ExecuteSubmit ==
    /\ scenario.execute = "start"
    /\ scenario' = [scenario EXCEPT
           !.execute = "submit_tileable_graph",
           !.submits = Bump(@),
           !.task = [state |-> "running", error |-> NoException]]
    /\ UNCHANGED trackerVars

\* execute after its await: Progress(), asyncio.create_task(...) and the
\* return of the ExecutionInfo.
ExecuteReturn ==
    /\ scenario.execute = "submit_tileable_graph"
    /\ scenario' = [scenario EXCEPT
           !.execute = "returned",
           !.progress = 0,
           !.watcher = "created"]
    /\ UNCHANGED trackerVars

\* The task service: the remote execution ends.
TaskSucceeds ==
    /\ scenario.task.state = "running"
    /\ scenario' = [scenario EXCEPT !.task.state = "succeeded"]
    /\ UNCHANGED trackerVars

TaskFails(error) ==
    /\ scenario.task.state = "running"
    /\ scenario' = [scenario EXCEPT
           !.task = [state |-> "failed",
                     error |-> [type |-> error, traceback |-> "local",
                                cause |-> "none"]]]
    /\ UNCHANGED trackerVars

\* What wait_task(task_id, timeout=0.5) returns: the TaskResult of a task
\* that has ended, None when the timeout passes first.
wait_task(task) ==
    IF task.state = "running" THEN None
    ELSE [error |-> task.error, traceback |-> "remote"]

\* error.with_traceback(traceback)
with_traceback(error, traceback) == [error EXCEPT !.traceback = traceback]

\* Mutant: a poll that returns no result ends the loop as a success.
after_wait_task_hasty(task_result, progress) ==
    [watcher |-> "get_fetch_tileables", progress |-> 100,
     exception |-> NoException]

\* Mutant: a poll that returns no result is taken for a failure.
after_wait_task_inferring(task_result, progress) ==
    IF task_result = None
    THEN [watcher |-> "raised", progress |-> progress,
          exception |-> [type |-> "TimeoutError", traceback |-> "local",
                         cause |-> "none"]]
    ELSE IF task_result.error # NoException
    THEN [watcher |-> "raised", progress |-> 100,
          exception |-> with_traceback(task_result.error,
                                       task_result.traceback)]
    ELSE [watcher |-> "get_fetch_tileables", progress |-> 100,
          exception |-> NoException]

\* Mutant: the loop has no break.
after_wait_task_endless(task_result, progress) ==
    [watcher |-> "get_task_progress", progress |-> progress,
     exception |-> NoException]

\* The body of the while loop after wait_task has returned, and the raise
\* that follows the loop.
after_wait_task(task_result, progress) ==
    IF task_result = None
    THEN [watcher |-> "get_task_progress", progress |-> progress,
          exception |-> NoException]
    ELSE IF task_result.error # NoException
    THEN [watcher |-> "raised", progress |-> 100,
          exception |-> with_traceback(task_result.error,
                                       task_result.traceback)]
    ELSE [watcher |-> "get_fetch_tileables", progress |-> 100,
          exception |-> NoException]

\* The watcher starts: its first wait_task is sent.
WatcherStart ==
    /\ scenario.watcher = "created"
    /\ scenario' = [scenario EXCEPT !.watcher = "wait_task"]
    /\ UNCHANGED trackerVars

\* await wait_task(...) returns.
WatcherWaitTask ==
    /\ scenario.watcher = "wait_task"
    /\ LET task_result == wait_task(scenario.task)
           r == after_wait_task(task_result, scenario.progress)
       IN  scenario' = [scenario EXCEPT
               !.polls = Bump(@),
               !.task_result = task_result,
               !.watcher = r.watcher,
               !.progress = r.progress,
               !.exception = r.exception]
    /\ UNCHANGED trackerVars

\* progress.value = await get_task_progress(task_id), and the next
\* wait_task is sent.
WatcherGetTaskProgress(value) ==
    /\ scenario.watcher = "get_task_progress"
    /\ scenario' = [scenario EXCEPT
           !.progress = value,
           !.watcher = "wait_task"]
    /\ UNCHANGED trackerVars

\* What get_fetch_tileables(task_id) returns: a fetch tileable for each
\* tileable of the graph, in the order submitted.
get_fetch_tileables(tileables) ==
    [i \in 1..Len(tileables) |-> FetchOf(tileables[i])]

\* Mutant: the params of the tileables are left as they were.
publish_fetch_only(tileable_to_fetch, params, tileables, fetch_tileables) ==
    [_tileable_to_fetch |->
         [t \in DOMAIN tileable_to_fetch \cup Range(tileables) |->
             IF t \in Range(tileables)
             THEN fetch_tileables[
                      CHOOSE i \in 1..Len(tileables) : tileables[i] = t]
             ELSE tileable_to_fetch[t]],
     params |-> params]

\* for tileable, fetch_tileable in zip(tileables, fetch_tileables): ...
RECURSIVE publish(_, _, _, _)
publish(tileable_to_fetch, params, tileables, fetch_tileables) ==
    IF tileables = <<>> \/ fetch_tileables = <<>>
    THEN [_tileable_to_fetch |-> tileable_to_fetch, params |-> params]
    ELSE publish(Put(tileable_to_fetch, Head(tileables),
                     Head(fetch_tileables)),
                 [params EXCEPT ![Head(tileables)] =
                     ParamsOf(Head(fetch_tileables))],
                 Tail(tileables), Tail(fetch_tileables))

\* Mutant: the loop that records the fetch tileables yields after its
\* first turn.
WatcherGetFetchTileables_yielding ==
    /\ scenario.watcher = "get_fetch_tileables"
    /\ LET tileables == scenario.tileables
           fetch_tileables == get_fetch_tileables(tileables)
           first == publish(scenario._tileable_to_fetch, scenario.params,
                            <<tileables[1]>>, <<fetch_tileables[1]>>)
           r == publish(scenario._tileable_to_fetch, scenario.params,
                        tileables, fetch_tileables)
       IN  IF /\ Len(tileables) > 1
              /\ scenario.params[tileables[1]] # ParamsOf(fetch_tileables[1])
           THEN scenario' = [scenario EXCEPT
                    !._tileable_to_fetch = first._tileable_to_fetch,
                    !.params = first.params]
           ELSE scenario' = [scenario EXCEPT
                    !.watcher = "returned",
                    !._tileable_to_fetch = r._tileable_to_fetch,
                    !.params = r.params]
    /\ UNCHANGED trackerVars

\* await get_fetch_tileables(task_id) returns; the assertion and the loop
\* that records the fetch tileables.
WatcherGetFetchTileables ==
    /\ scenario.watcher = "get_fetch_tileables"
    /\ LET fetch_tileables == get_fetch_tileables(scenario.tileables)
           r == publish(scenario._tileable_to_fetch, scenario.params,
                        scenario.tileables, fetch_tileables)
       IN  IF Len(scenario.tileables) # Len(fetch_tileables)
           THEN scenario' = [scenario EXCEPT
                    !.watcher = "raised",
                    !.exception = [type |-> "AssertionError",
                                   traceback |-> "local", cause |-> "none"]]
           ELSE scenario' = [scenario EXCEPT
                    !.watcher = "returned",
                    !._tileable_to_fetch = r._tileable_to_fetch,
                    !.params = r.params]
    /\ UNCHANGED trackerVars

NextSession ==
    \/ ExecuteSubmit
    \/ ExecuteReturn
    \/ TaskSucceeds
    \/ \E error \in Errors : TaskFails(error)
    \/ WatcherStart
    \/ WatcherWaitTask
    \/ \E value \in RunningProgress : WatcherGetTaskProgress(value)
    \/ WatcherGetFetchTileables

SpecSession == InitSession /\ [][NextSession]_vars

\* The watcher is an asyncio task of a running event loop: a step of it
\* that can be taken is taken; so is the return of execute.
SpecSessionFair ==
    /\ SpecSession
    /\ WF_vars(ExecuteReturn)
    /\ WF_vars(WatcherStart)
    /\ WF_vars(WatcherWaitTask)
    /\ WF_vars(\E value \in RunningProgress : WatcherGetTaskProgress(value))
    /\ WF_vars(WatcherGetFetchTileables)

\* The state of the task as the session sees it.
TaskState ==
    CASE scenario.watcher \in {"none", "created"} -> "SUBMITTED"
      [] scenario.watcher \in {"wait_task", "get_task_progress"} -> "POLLING"
      [] scenario.watcher \in {"get_fetch_tileables", "returned"} -> "SUCCEEDED"
      [] scenario.watcher = "raised" -> "FAILED"

\* ----------------------------------------- execute: its keyword arguments

\* The keyword arguments a caller may pass to execute: the three it takes,
\* and an overall timeout.
KwargNames == {"fuse_enabled", "task_name", "extra_config", "timeout"}

\* The overall timeout a caller supplies, and how long the clock runs, in
\* polling intervals.
TimeoutTicks == 1
MaxElapsed == 3

\* execute(*tileables, **kwargs), with the time that has passed since the
\* call.
InitTimed ==
    /\ InitTracker
    /\ \E tileables \in SubmitLists, kwargs \in SUBSET KwargNames :
           scenario = [name |-> "timed",
                       tileables |-> tileables,
                       kwargs |-> kwargs,
                       elapsed |-> 0,
                       execute |-> "start",
                       execute_exception |-> NoException,
                       submits |-> 0,
                       task |-> [state |-> "none", error |-> NoException],
                       watcher |-> "none",
                       polls |-> 0,
                       task_result |-> None,
                       progress |-> 0,
                       exception |-> NoException,
                       _tileable_to_fetch |-> EmptyDict,
                       params |-> [t \in Tileables |-> BuiltParams(t)]]

\* kwargs.pop('fuse_enabled', False); kwargs.pop('task_name', None);
\* kwargs.pop('extra_config', None): what is left of kwargs.
popped(kwargs) == kwargs \ {"fuse_enabled", "task_name", "extra_config"}

\* execute up to its await: if kwargs: raise TypeError(...); else the
\* graph is submitted.
ExecuteCall ==
    /\ scenario.execute = "start"
    /\ IF popped(scenario.kwargs) # {}
       THEN /\ scenario' = [scenario EXCEPT
                   !.execute = "raised",
                   !.execute_exception =
                       [type |-> "TypeError", traceback |-> "local",
                        cause |-> "none"]]
            /\ UNCHANGED trackerVars
       ELSE ExecuteSubmit

\* A polling interval passes after the call of execute.
Tick ==
    /\ scenario.execute # "start"
    /\ scenario.elapsed < MaxElapsed
    /\ scenario' = [scenario EXCEPT !.elapsed = @ + 1]
    /\ UNCHANGED trackerVars

NextTimed ==
    \/ ExecuteCall
    \/ ExecuteReturn
    \/ TaskSucceeds
    \/ \E error \in Errors : TaskFails(error)
    \/ WatcherStart
    \/ WatcherWaitTask
    \/ \E value \in RunningProgress : WatcherGetTaskProgress(value)
    \/ WatcherGetFetchTileables
    \/ Tick

SpecTimed == InitTimed /\ [][NextTimed]_vars

\* ------------------------------------------------------ the session: fetch

\* Tileables whose op is an index op (TensorIndex) over an input, beside
\* the tileables a and b whose op is none of the slice op types.
IndexTileables == {"a_s", "a_f", "a_s_s", "a_f_s", "a_s_f"}
FetchableTileables == Tileables \cup IndexTileables

\* tileable.op
op(tileable) ==
    IF tileable \in IndexTileables THEN "TensorIndex" ELSE "TensorOnes"

\* tileable.inputs[0] of an index tileable
input(tileable) ==
    CASE tileable \in {"a_s", "a_f"} -> "a"
      [] tileable \in {"a_s_s", "a_s_f"} -> "a_s"
      [] tileable = "a_f_s" -> "a_f"

\* tileable.op.indexes of an index tileable, each component by its type:
\* a_s is a[:2, 0], a_f is a[:, array], a_s_s is a_s[0], a_f_s is a_f[1:],
\* a_s_f is a_s[array].
op_indexes(tileable) ==
    CASE tileable = "a_s" -> <<"slice", "Integral">>
      [] tileable = "a_f" -> <<"slice", "ndarray">>
      [] tileable = "a_s_s" -> <<"Integral">>
      [] tileable = "a_f_s" -> <<"slice">>
      [] tileable = "a_s_f" -> <<"ndarray">>

slice_op_types == {"TensorIndex", "DataFrameIlocGetItem", "SeriesIlocGetItem"}

\* indexes = None
NoIndexes == <<"None">>

\* all(isinstance(index, (slice, Integral)) for index in indexes)
all_slices_or_integers(indexes) ==
    \A i \in 1..Len(indexes) : indexes[i] \in {"slice", "Integral"}

ValueError(message) ==
    [type |-> "ValueError", traceback |-> "local", cause |-> message]

\* Mutant: the index components are looked at once, after the loop.
RECURSIVE _get_to_fetch_tileable_unchecked(_, _, _)
_get_to_fetch_tileable_unchecked(tileable_to_fetch, tileable, indexes) ==
    IF tileable \in DOMAIN tileable_to_fetch
    THEN IF indexes = NoIndexes \/ all_slices_or_integers(indexes)
         THEN [exception |-> NoException,
               fetch_tileable |-> tileable_to_fetch[tileable],
               indexes |-> indexes]
         ELSE [exception |-> ValueError("Only support fetch data slices"),
               fetch_tileable |-> <<>>, indexes |-> indexes]
    ELSE IF op(tileable) \in slice_op_types
    THEN _get_to_fetch_tileable_unchecked(tileable_to_fetch, input(tileable),
                                          op_indexes(tileable))
    ELSE [exception |-> ValueError("Cannot fetch unexecuted tileable"),
          fetch_tileable |-> <<>>, indexes |-> indexes]

\* Mutant: a tileable without fetch tileable is taken for one that has no
\* chunk.
RECURSIVE _get_to_fetch_tileable_lenient(_, _, _)
_get_to_fetch_tileable_lenient(tileable_to_fetch, tileable, indexes) ==
    IF tileable \in DOMAIN tileable_to_fetch
    THEN [exception |-> NoException,
          fetch_tileable |-> tileable_to_fetch[tileable],
          indexes |-> indexes]
    ELSE IF op(tileable) \in slice_op_types
    THEN IF all_slices_or_integers(op_indexes(tileable))
         THEN _get_to_fetch_tileable_lenient(tileable_to_fetch,
                  input(tileable), op_indexes(tileable))
         ELSE [exception |-> ValueError("Only support fetch data slices"),
               fetch_tileable |-> <<>>, indexes |-> op_indexes(tileable)]
    ELSE [exception |-> NoException,
          fetch_tileable |-> <<"fetch", "none">>, indexes |-> NoIndexes]

\* The while loop of _get_to_fetch_tileable and its return: the fetch
\* tileable recorded for the tileable or for the tileable it is an index
\* of, with the indexes last read, or the ValueError raised.
RECURSIVE _get_to_fetch_tileable(_, _, _)
_get_to_fetch_tileable(tileable_to_fetch, tileable, indexes) ==
    IF tileable \in DOMAIN tileable_to_fetch
    THEN [exception |-> NoException,
          fetch_tileable |-> tileable_to_fetch[tileable],
          indexes |-> indexes]
    ELSE IF op(tileable) \in slice_op_types
    THEN IF all_slices_or_integers(op_indexes(tileable))
         THEN _get_to_fetch_tileable(tileable_to_fetch, input(tileable),
                                     op_indexes(tileable))
         ELSE [exception |-> ValueError("Only support fetch data slices"),
               fetch_tileable |-> <<>>, indexes |-> op_indexes(tileable)]
    ELSE [exception |-> ValueError("Cannot fetch unexecuted tileable"),
          fetch_tileable |-> <<>>, indexes |-> indexes]

\* fetch_tileable.chunks, by key, in the order of their index.
chunks(fetch_tileable) ==
    CASE fetch_tileable = FetchOf("a") -> <<"c1", "c2">>
      [] fetch_tileable = FetchOf("b") -> <<"c3">>
      [] OTHER -> <<>>

\* What storage_api.get(chunk.key) returns.
StoredData(chunk_key) == <<"data", chunk_key>>

\* merge_chunks(index_to_data): the pieces in the order of their index.
merge_chunks(index_to_data) ==
    [i \in 1..Len(index_to_data) |-> index_to_data[i][2]]

\* The lists of tileables a client passes to Session.fetch.
FetchLists ==
    {<<t>> : t \in FetchableTileables}
        \cup {<<t, u>> : t \in Tileables, u \in FetchableTileables}

NoSession == "None"
NoFetch ==
    [state |-> "none", session |-> NoSession, executed_sessions |-> <<>>,
     args |-> <<>>, i |-> 0, data |-> <<>>, meta_lookups |-> 0,
     storage_gets |-> 0, exception |-> NoException]

\* Executions of a session, one after the other.
MaxRounds == 2

\* A session where execute is called up to MaxRounds times, a watcher may
\* be cancelled, and fetch is called once, at any time.
\*   rounds     the calls of execute before the present one
\*   recorded   the tileables of those calls whose watcher ran to its end
\*   fetch  the call of fetch: its arguments, the argument it is at, the
\*          data gathered, the remote calls made, what it raised
InitFetch ==
    /\ InitTracker
    /\ \E tileables \in SubmitLists :
           scenario = [name |-> "fetch",
                       tileables |-> tileables,
                       execute |-> "start",
                       submits |-> 0,
                       task |-> [state |-> "none", error |-> NoException],
                       watcher |-> "none",
                       polls |-> 0,
                       task_result |-> None,
                       progress |-> 0,
                       exception |-> NoException,
                       _tileable_to_fetch |-> EmptyDict,
                       params |-> [t \in Tileables |-> BuiltParams(t)],
                       rounds |-> 0,
                       recorded |-> {},
                       fetch |-> NoFetch]

\* Mutant: a cancellation that arrives when the fetch tileables are known
\* lets the first of them be recorded.
WatcherCancel_midway ==
    /\ scenario.watcher \in
           {"created", "wait_task", "get_task_progress", "get_fetch_tileables"}
    /\ scenario' = [scenario EXCEPT
           !.watcher = "cancelled",
           !.exception = [type |-> "CancelledError", traceback |-> "local",
                          cause |-> "none"],
           !._tileable_to_fetch =
               IF scenario.watcher = "get_fetch_tileables"
               THEN Put(@, scenario.tileables[1],
                        FetchOf(scenario.tileables[1]))
               ELSE @]
    /\ UNCHANGED trackerVars

\* aio_task.cancel(): the watcher gets CancelledError at the await it is
\* suspended at, or before it has run.
WatcherCancel ==
    /\ scenario.watcher \in
           {"created", "wait_task", "get_task_progress", "get_fetch_tileables"}
    /\ scenario' = [scenario EXCEPT
           !.watcher = "cancelled",
           !.exception = [type |-> "CancelledError", traceback |-> "local",
                          cause |-> "none"]]
    /\ UNCHANGED trackerVars

\* execute is called again once the watcher of the call before has ended.
ExecuteAgain(tileables) ==
    /\ scenario.execute = "returned"
    /\ scenario.watcher \in {"returned", "raised", "cancelled"}
    /\ scenario.rounds + 1 < MaxRounds
    /\ scenario' = [scenario EXCEPT
           !.rounds = @ + 1,
           !.recorded = IF scenario.watcher = "returned"
                        THEN @ \cup Range(scenario.tileables) ELSE @,
           !.tileables = tileables,
           !.execute = "start",
           !.task = [state |-> "none", error |-> NoException],
           !.watcher = "none",
           !.polls = 0,
           !.task_result = None,
           !.progress = 0,
           !.exception = NoException]
    /\ UNCHANGED trackerVars

\* Session.fetch(*tileables) is called.
FetchCall(tileables) ==
    /\ scenario.fetch.state = "none"
    /\ scenario' = [scenario EXCEPT
           !.fetch = [NoFetch EXCEPT !.state = "running", !.session = "s1",
                                     !.args = tileables, !.i = 1]]
    /\ UNCHANGED trackerVars

\* One turn of the loop over the arguments of fetch: the fetch tileable is
\* looked up; for each of its chunks the band is asked of the Metadata
\* Directory and the data of Storage Access; the pieces are merged.  After
\* the last argument the data is returned.
FetchTileable ==
    /\ scenario.fetch.state = "running"
    /\ LET f == scenario.fetch
           r == _get_to_fetch_tileable(scenario._tileable_to_fetch,
                                       f.args[f.i], NoIndexes)
           cs == chunks(r.fetch_tileable)
           index_to_data == [j \in 1..Len(cs) |-> <<j, StoredData(cs[j])>>]
       IN  IF r.exception # NoException
           THEN scenario' = [scenario EXCEPT
                    !.fetch.state = "raised",
                    !.fetch.exception = r.exception]
           ELSE IF r.indexes # NoIndexes
           THEN scenario' = [scenario EXCEPT
                    !.fetch.state = "raised",
                    !.fetch.exception =
                        [type |-> "AssertionError", traceback |-> "local",
                         cause |-> "none"]]
           ELSE scenario' = [scenario EXCEPT
                    !.fetch.meta_lookups = @ + Len(cs),
                    !.fetch.storage_gets = @ + Len(cs),
                    !.fetch.data = Append(@, merge_chunks(index_to_data)),
                    !.fetch.i = @ + 1,
                    !.fetch.state =
                        IF f.i = Len(f.args) THEN "returned" ELSE "running"]
    /\ UNCHANGED trackerVars

\* The sessions a tileable's fetch may resolve to: none, the session s1
\* above, or a session of the old kind.
SessionArgs == {NoSession, "s1"}
ExecutedSessions == {<<>>, <<"s1">>}
DefaultSessions == {NoSession, "s1"}
LagacyDefaults == {NoSession, "legacy"}

\* _get_session(executable, session)
_get_session(_executed_sessions, session, default_session, lagacy_default) ==
    LET s1 == IF session = NoSession /\ Len(_executed_sessions) > 0
              THEN _executed_sessions[Len(_executed_sessions)]
              ELSE session
        s2 == IF s1 = NoSession THEN default_session ELSE s1
    IN  IF s2 = NoSession THEN lagacy_default ELSE s2

\* _check_session(session, action): what it raises.
_check_session(session) ==
    IF session = NoSession
    THEN ValueError("must be executed first before fetch")
    ELSE NoException

\* tileable.fetch(session=session): the session is resolved and checked,
\* then the fetch of that session is called with the tileable.
TileableFetch(tileable, _executed_sessions, session, default_session, lagacy_default) ==
    /\ scenario.fetch.state = "none"
    /\ LET s == _get_session(_executed_sessions, session, default_session,
                             lagacy_default)
           e == _check_session(s)
       IN  scenario' = [scenario EXCEPT
               !.fetch = [NoFetch EXCEPT
                   !.session = s,
                   !.executed_sessions = _executed_sessions,
                   !.args = <<tileable>>,
                   !.exception = e,
                   !.state = IF e # NoException THEN "raised"
                             ELSE IF s = "s1" THEN "running"
                             ELSE "legacy",
                   !.i = IF e = NoException /\ s = "s1" THEN 1 ELSE 0]]
    /\ UNCHANGED trackerVars

NextFetch ==
    \/ ExecuteSubmit
    \/ ExecuteReturn
    \/ TaskSucceeds
    \/ \E error \in Errors : TaskFails(error)
    \/ WatcherStart
    \/ WatcherWaitTask
    \/ \E value \in RunningProgress : WatcherGetTaskProgress(value)
    \/ WatcherGetFetchTileables
    \/ WatcherCancel
    \/ \E tileables \in SubmitLists : ExecuteAgain(tileables)
    \/ \E tileables \in FetchLists : FetchCall(tileables)
    \/ \E tileable \in Tileables, es \in ExecutedSessions,
          s \in SessionArgs, d \in DefaultSessions, l \in LagacyDefaults :
              TileableFetch(tileable, es, s, d, l)
    \/ FetchTileable

SpecFetch == InitFetch /\ [][NextFetch]_vars

\* The tileables recorded by the watchers that ran to their end.
Published ==
    scenario.recorded
        \cup (IF scenario.watcher = "returned"
              THEN Range(scenario.tileables) ELSE {})

\* The data fetch gathers for a tileable with a fetch tileable: the data of
\* each chunk, in the order of the chunks.
MergedData(tileable) ==
    LET cs == chunks(FetchOf(tileable))
    IN  [j \in 1..Len(cs) |-> StoredData(cs[j])]

\* The step of fetch that looks up its argument number i.
FetchLooksUp(i) ==
    /\ scenario.fetch.state = "running"
    /\ scenario.fetch.i = i
    /\ scenario'.fetch # scenario.fetch

\* An index of a tileable with a fetch tileable, through index ops whose
\* components are all slices or integers.
RECURSIVE SliceOfExecuted(_, _)
SliceOfExecuted(tileable_to_fetch, tileable) ==
    /\ tileable \notin DOMAIN tileable_to_fetch
    /\ op(tileable) \in slice_op_types
    /\ all_slices_or_integers(op_indexes(tileable))
    /\ \/ input(tileable) \in DOMAIN tileable_to_fetch
       \/ SliceOfExecuted(tileable_to_fetch, input(tileable))

\* A tileable without fetch tileable whose lineage, through index ops up to
\* a tileable with a fetch tileable, has an index component that is neither
\* a slice nor an integer.
RECURSIVE FancyInLineage(_, _)
FancyInLineage(tileable_to_fetch, tileable) ==
    /\ tileable \notin DOMAIN tileable_to_fetch
    /\ op(tileable) \in slice_op_types
    /\ \/ ~all_slices_or_integers(op_indexes(tileable))
       \/ FancyInLineage(tileable_to_fetch, input(tileable))

\* ---------------------------------------------------- the session: destroy

NoCall == [op |-> "none", id |-> "none", exception |-> NoException]

\* A session s1 that Session.init has created, with the registry of the
\* session service.
\*   registry  the session ids the session service knows
\*   session   the Session object of s1: open, or destroyed
\*   detector  _asyncio_task_timeout_detector_task: none, running, cancelled
\*   destroy   how the last call of destroy() on the object ended
\*   destroys  calls of destroy() on the object
\*   api       the last other call that names a session id, and its end
InitDestroy ==
    /\ InitTracker
    /\ \E tileables \in SubmitLists, detector \in {"none", "running"} :
           scenario = [name |-> "destroy",
                       tileables |-> tileables,
                       execute |-> "start",
                       submits |-> 0,
                       task |-> [state |-> "none", error |-> NoException],
                       watcher |-> "none",
                       polls |-> 0,
                       task_result |-> None,
                       progress |-> 0,
                       exception |-> NoException,
                       _tileable_to_fetch |-> EmptyDict,
                       params |-> [t \in Tileables |-> BuiltParams(t)],
                       fetch |-> NoFetch,
                       registry |-> {"s1"},
                       session |-> "open",
                       detector |-> detector,
                       destroy |-> "none",
                       destroys |-> 0,
                       destroy_exception |-> NoException,
                       api |-> NoCall]

\* Session service: create_session(session_id) makes the id known.
create_session(registry, session_id) == registry \cup {session_id}

\* Session service: delete_session(session_id) forgets the id; for an id
\* it does not know it fails with a value error that names the id.
delete_session(registry, session_id) ==
    IF session_id \in registry
    THEN [registry |-> registry \ {session_id}, exception |-> NoException]
    ELSE [registry |-> registry, exception |-> ValueError(session_id)]

\* Session.init(address, session_id): _init creates the session with the
\* id and returns a new Session object.
SessionInit(session_id) ==
    /\ scenario' = [scenario EXCEPT
           !.registry = create_session(@, session_id),
           !.api = [op |-> "init", id |-> session_id,
                    exception |-> NoException]]
    /\ UNCHANGED trackerVars

\* A client calls delete_session of the session service itself.
DeleteSession(session_id) ==
    /\ LET r == delete_session(scenario.registry, session_id)
       IN  scenario' = [scenario EXCEPT
               !.registry = r.registry,
               !.api = [op |-> "delete_session", id |-> session_id,
                        exception |-> r.exception]]
    /\ UNCHANGED trackerVars

\* destroy(): await super().destroy(); await delete_session(session_id);
\* the timeout detector task, if there is one, is cancelled.  The tasks
\* execute created are held by the ExecutionInfo objects only: destroy has
\* no hold on a watcher.
destroy(registry, session_id, detector, watcher) ==
    LET r == delete_session(registry, session_id)
    IN  [registry |-> r.registry,
         exception |-> r.exception,
         detector |-> IF r.exception = NoException /\ detector = "running"
                      THEN "cancelled" ELSE detector,
         watcher |-> watcher]

\* A call of destroy() on the Session object of s1.
Destroy ==
    /\ scenario.destroys < 2
    /\ LET r == destroy(scenario.registry, "s1", scenario.detector,
                        scenario.watcher)
       IN  scenario' = [scenario EXCEPT
               !.registry = r.registry,
               !.detector = r.detector,
               !.watcher = r.watcher,
               !.session = "destroyed",
               !.destroys = @ + 1,
               !.destroy = IF r.exception = NoException
                           THEN "returned" ELSE "raised",
               !.destroy_exception = r.exception]
    /\ UNCHANGED trackerVars

\* execute and fetch are called on a session that was not destroyed.
SessionExecute == scenario.session = "open" /\ ExecuteSubmit
SessionFetch(tileable) == scenario.session = "open" /\ FetchCall(<<tileable>>)

NextDestroy ==
    \/ SessionExecute
    \/ ExecuteReturn
    \/ TaskSucceeds
    \/ \E error \in Errors : TaskFails(error)
    \/ WatcherStart
    \/ WatcherWaitTask
    \/ \E value \in RunningProgress : WatcherGetTaskProgress(value)
    \/ WatcherGetFetchTileables
    \/ \E tileable \in Tileables : SessionFetch(tileable)
    \/ FetchTileable
    \/ \E session_id \in Sessions : SessionInit(session_id)
    \/ \E session_id \in Sessions : DeleteSession(session_id)
    \/ Destroy

SpecDestroy == InitDestroy /\ [][NextDestroy]_vars

\* --------------------------------------------------- the storage tunnel

\* StorageLevel: the members of the enumeration.
StorageLevel ==
    {[name |-> "GPU", value |-> 1], [name |-> "MEMORY", value |-> 2],
     [name |-> "DISK", value |-> 4], [name |-> "REMOTE", value |-> 8]}

\* The objects a client stores.
Objects == {"v1", "v2"}

\* str.lower() and str.upper() on the names that occur.
lower(s) ==
    CASE s = "GPU" -> "gpu"
      [] s = "MEMORY" -> "memory"
      [] s = "DISK" -> "disk"
      [] s = "REMOTE" -> "remote"
      [] OTHER -> s

upper(s) ==
    CASE s = "gpu" -> "GPU"
      [] s = "memory" -> "MEMORY"
      [] s = "disk" -> "DISK"
      [] s = "remote" -> "REMOTE"
      [] OTHER -> s

NoLevel == [name |-> "None", value |-> 0]
NoArgument == "None"

\* serialize_serializable and deserialize_serializable: a value travels as
\* an opaque blob.
serialize_serializable(value) == <<"blob", value>>
deserialize_serializable(body) == body[2]

KeyError == [type |-> "KeyError", traceback |-> "local", cause |-> "none"]
AttributeError ==
    [type |-> "AttributeError", traceback |-> "local", cause |-> "none"]
DataNotExist ==
    [type |-> "DataNotExist", traceback |-> "local", cause |-> "none"]

\* getattr(StorageLevel, name)
getattr_StorageLevel(name) ==
    IF \E l \in StorageLevel : l.name = name
    THEN [level |-> CHOOSE l \in StorageLevel : l.name = name,
          exception |-> NoException]
    ELSE [level |-> NoLevel, exception |-> AttributeError]

\* Mutant: the level parameter is looked up as it came.
put_data_level_as_sent(level_argument) ==
    getattr_StorageLevel(IF level_argument = NoArgument THEN "MEMORY"
                         ELSE level_argument)

\* put_data: level = self.get_argument('level', None) or 'MEMORY';
\* level = getattr(StorageLevel, level.upper())
put_data_level(level_argument) ==
    getattr_StorageLevel(upper(IF level_argument = NoArgument THEN "MEMORY"
                               ELSE level_argument))

\* _get_storage_api_by_object_id: the address of the first band the
\* Metadata Directory has for the key; KeyError when it has none.
_get_storage_api_by_object_id(metas, object_id) ==
    IF object_id \in DOMAIN metas /\ Len(metas[object_id]) > 0
    THEN [address |-> metas[object_id][1][1], exception |-> NoException]
    ELSE [address |-> "none", exception |-> KeyError]

\* The result of a put.
DataInfo(data_key, level) == [object_id |-> data_key, level |-> level]
NoDataInfo == DataInfo("none", NoLevel)

\* Storage Access on a node: put stores the object under the key at the
\* level, get returns the object stored under the key.
node_put(store, data_key, obj, level) ==
    Put(store, data_key, [obj |-> obj, level |-> level])

\* The handler of PUT .../storage/{data_key}?level=...: what it stores,
\* what the node-side put received, what it answers.
put_data(metas, storage, data_key, level_argument, body) ==
    LET l == put_data_level(level_argument)
        a == _get_storage_api_by_object_id(metas, data_key)
    IN  IF l.exception # NoException
        THEN [storage |-> storage, received |-> NoLevel,
              exception |-> l.exception, body |-> <<"blob", NoDataInfo>>]
        ELSE IF a.exception # NoException
        THEN [storage |-> storage, received |-> NoLevel,
              exception |-> a.exception, body |-> <<"blob", NoDataInfo>>]
        ELSE [storage |->
                  [storage EXCEPT ![a.address] =
                      node_put(@, data_key, deserialize_serializable(body),
                               l.level)],
              received |-> l.level,
              exception |-> NoException,
              body |-> serialize_serializable(DataInfo(data_key, l.level))]

\* The handler of GET .../storage/{data_key}.
get_data(metas, storage, data_key) ==
    LET a == _get_storage_api_by_object_id(metas, data_key)
    IN  IF a.exception # NoException
        THEN [exception |-> a.exception, body |-> <<"blob", "none">>]
        ELSE IF data_key \notin DOMAIN storage[a.address]
        THEN [exception |-> DataNotExist, body |-> <<"blob", "none">>]
        ELSE [exception |-> NoException,
              body |-> serialize_serializable(
                           storage[a.address][data_key].obj)]

\* A client of the tunnel that puts an object and then gets it.
\*   meta      Metadata Directory: chunk key -> bands
\*   storage   the objects each node holds, by key
\*   phase     start, put (the put was answered), got (the get was)
\*   passed    the level the client passed to put, if it passed one
\*   received  the level the node-side put received
InitTunnel ==
    /\ InitTracker
    /\ scenario = [name |-> "tunnel",
                   meta |-> EmptyDict,
                   storage |-> [a \in Addresses |-> EmptyDict],
                   phase |-> "start",
                   key |-> "none",
                   obj |-> "none",
                   passed |-> NoLevel,
                   argument |-> NoArgument,
                   received |-> NoLevel,
                   put_exception |-> NoException,
                   info |-> NoDataInfo,
                   got |-> "none",
                   get_exception |-> NoException]

\* The Metadata Directory learns the bands of a chunk.
TunnelSetMeta(chunk_key, bands) ==
    /\ scenario.phase = "start"
    /\ chunk_key \notin DOMAIN scenario.meta
    /\ scenario' = [scenario EXCEPT !.meta = Put(@, chunk_key, bands)]
    /\ UNCHANGED trackerVars

\* A PUT request with the level parameter and the body given, and its
\* answer.
PutRequest(data_key, obj, passed, level_argument) ==
    /\ scenario.phase = "start"
    /\ LET r == put_data(scenario.meta, scenario.storage, data_key,
                         level_argument, serialize_serializable(obj))
       IN  scenario' = [scenario EXCEPT
               !.phase = "put",
               !.key = data_key,
               !.obj = obj,
               !.passed = passed,
               !.argument = level_argument,
               !.storage = r.storage,
               !.received = r.received,
               !.put_exception = r.exception,
               !.info = deserialize_serializable(r.body)]
    /\ UNCHANGED trackerVars

\* WebStorageAPI.put(data_key, obj, level): the request carries
\* level.name.lower().
WebStoragePut(data_key, obj, level) ==
    PutRequest(data_key, obj, level, lower(level.name))

\* A PUT request that carries no level parameter.
PutWithoutLevel(data_key, obj) ==
    PutRequest(data_key, obj, NoLevel, NoArgument)

\* WebStorageAPI.get(data_key), after the put.
WebStorageGet ==
    /\ scenario.phase = "put"
    /\ LET r == get_data(scenario.meta, scenario.storage, scenario.key)
       IN  scenario' = [scenario EXCEPT
               !.phase = "got",
               !.got = deserialize_serializable(r.body),
               !.get_exception = r.exception]
    /\ UNCHANGED trackerVars

NextTunnel ==
    \/ \E k \in ChunkKeys, bands \in BandLists : TunnelSetMeta(k, bands)
    \/ \E k \in ChunkKeys, obj \in Objects, level \in StorageLevel :
           WebStoragePut(k, obj, level)
    \/ \E k \in ChunkKeys, obj \in Objects : PutWithoutLevel(k, obj)
    \/ WebStorageGet

SpecTunnel == InitTunnel /\ [][NextTunnel]_vars

\* ----------------------------------- the storage tunnel: conditions

\* The lists of conditions a client passes to get; conditions=None.
Conditions == {<<>>, <<"0:1">>, <<"0:1", "2">>}
NoConditions == <<"None">>

\* The node-side get was not called.
NotCalled == <<"not called">>

\* An empty request body.
NoBody == <<>>

\* The handler of POST .../storage/{data_key}: body_args is None when the
\* body is empty, and body_args.get('conditions') is evaluated either way.
get_data_by_post(metas, storage, data_key, body) ==
    IF Len(body) = 0
    THEN [exception |-> AttributeError, received |-> NotCalled,
          body |-> <<"blob", "none">>]
    ELSE LET conditions == deserialize_serializable(body).conditions
             a == _get_storage_api_by_object_id(metas, data_key)
         IN  IF a.exception # NoException
             THEN [exception |-> a.exception, received |-> NotCalled,
                   body |-> <<"blob", "none">>]
             ELSE IF data_key \notin DOMAIN storage[a.address]
             THEN [exception |-> DataNotExist, received |-> conditions,
                   body |-> <<"blob", "none">>]
             ELSE [exception |-> NoException, received |-> conditions,
                   body |-> serialize_serializable(
                                storage[a.address][data_key].obj)]

\* A client of the tunnel that puts an object and then reads it.
\*   conditions    what the client passed to get
\*   method        the method of the read request
\*   get_received  the conditions the node-side get received
InitConditions ==
    /\ InitTracker
    /\ scenario = [name |-> "conditions",
                   meta |-> EmptyDict,
                   storage |-> [a \in Addresses |-> EmptyDict],
                   phase |-> "start",
                   key |-> "none",
                   obj |-> "none",
                   passed |-> NoLevel,
                   argument |-> NoArgument,
                   received |-> NoLevel,
                   put_exception |-> NoException,
                   info |-> NoDataInfo,
                   got |-> "none",
                   get_exception |-> NoException,
                   conditions |-> NoConditions,
                   method |-> "none",
                   get_received |-> NotCalled]

\* A POST request with the body given, after the put, and its answer.
PostRequest(conditions, body) ==
    /\ scenario.phase = "put"
    /\ LET r == get_data_by_post(scenario.meta, scenario.storage,
                                 scenario.key, body)
       IN  scenario' = [scenario EXCEPT
               !.phase = "got",
               !.conditions = conditions,
               !.method = "POST",
               !.get_received = r.received,
               !.got = deserialize_serializable(r.body),
               !.get_exception = r.exception]
    /\ UNCHANGED trackerVars

\* WebStorageAPI.get(data_key, conditions), after the put: GET when
\* conditions is None, POST with the conditions in the body otherwise.
WebStorageGetConditions(conditions) ==
    IF conditions = NoConditions
    THEN /\ scenario.phase = "put"
         /\ LET r == get_data(scenario.meta, scenario.storage, scenario.key)
            IN  scenario' = [scenario EXCEPT
                    !.phase = "got",
                    !.conditions = conditions,
                    !.method = "GET",
                    !.get_received =
                        IF r.exception = KeyError THEN NotCalled
                        ELSE NoConditions,
                    !.got = deserialize_serializable(r.body),
                    !.get_exception = r.exception]
         /\ UNCHANGED trackerVars
    ELSE PostRequest(conditions,
                     serialize_serializable([conditions |-> conditions]))

\* A POST request that carries no body.
PostWithoutBody == PostRequest(NoConditions, NoBody)

NextConditions ==
    \/ \E k \in ChunkKeys, bands \in BandLists : TunnelSetMeta(k, bands)
    \/ \E k \in ChunkKeys, obj \in Objects, level \in StorageLevel :
           WebStoragePut(k, obj, level)
    \/ \E c \in Conditions \cup {NoConditions} : WebStorageGetConditions(c)
    \/ PostWithoutBody

SpecConditions == InitConditions /\ [][NextConditions]_vars

\* ------------------------------------------------ one tracker per session

\* Calls made on the trackers of the sessions.
MaxCalls == 3

\* Mutant: every session is given the same uid.
gen_uid_shared(session_id) == <<"", "_lifecycle_tracker">>

\* gen_uid(session_id): f'{session_id}_lifecycle_tracker'
gen_uid(session_id) == <<session_id, "_lifecycle_tracker">>

\* LifecycleTrackerActor(session_id): __init__
LifecycleTrackerActor(session_id) ==
    [_session_id |-> session_id,
     _tileable_key_to_chunk_keys |-> EmptyDict,
     _tileable_ref_counts |-> [k \in TileableKeys |-> 0],
     _chunk_ref_counts |-> [k \in ChunkKeys |-> 0]]

\* The requests of _remove_chunks(to_remove_chunk_keys) of a tracker: the
\* storage deletes go to StorageAPI.create(self._session_id, addr), the
\* metadata deletes to the MetaAPI of self._session_id.
_remove_chunks(session_id, to_remove_chunk_keys, metas) ==
    LET kept == new_to_remove_chunk_keys(to_remove_chunk_keys, metas)
        batches == storage_api_to_deletes(kept, metas)
    IN  UNION {{[api |-> "storage", session_id |-> session_id,
                 address |-> batches[i].addr, key |-> k] :
                    k \in Range(batches[i].keys)} : i \in 1..Len(batches)}
        \cup {[api |-> "meta", session_id |-> session_id,
               address |-> "none", key |-> k] : k \in Range(kept)}

\* The trackers of the sessions, each created under the uid of its session,
\* and the Metadata Directory of each session: both sessions hold chunks
\* of the same keys.
\*   actors  uid -> the state of the tracker created under it
\*   metas   session -> chunk key -> meta
\*   call    the session of the last call
\*   issued  the deletes the last call issued
\*   calls   calls made
InitTrackers ==
    /\ InitTracker
    /\ scenario = [name |-> "trackers",
                   actors |-> [u \in {gen_uid(s) : s \in Sessions} |->
                                  LifecycleTrackerActor(
                                      CHOOSE s \in Sessions : gen_uid(s) = u)],
                   metas |-> [s \in Sessions |->
                                 [k \in ChunkKeys |->
                                     [bands |-> IF k = "c1"
                                                THEN <<Band("n1")>>
                                                ELSE <<Band("n1"),
                                                       Band("n2")>>]]],
                   call |-> "none",
                   issued |-> {},
                   calls |-> 0]

\* The tracker a session's lifecycle API talks to.
TrackerOf(s) == scenario.actors[gen_uid(s)]

\* A call on the tracker of a session ends: its tables as the call left
\* them, and the removal the call returned, run for the list it was given.
TrackerCall(s, tracking, tcounts, ccounts, to_remove_chunk_keys) ==
    LET tracker == TrackerOf(s)
        requests == _remove_chunks(tracker._session_id, to_remove_chunk_keys,
                                   scenario.metas[tracker._session_id])
    IN  /\ scenario.calls < MaxCalls
        /\ \A k \in DOMAIN tracker._tileable_ref_counts :
               tracker._tileable_ref_counts[k] >= 0
        /\ \A k \in DOMAIN tracker._chunk_ref_counts :
               tracker._chunk_ref_counts[k] >= 0
        /\ InBounds(tcounts) /\ InBounds(ccounts)
        /\ scenario' = [scenario EXCEPT
               !.actors[gen_uid(s)] =
                   [@ EXCEPT !._tileable_key_to_chunk_keys = tracking,
                             !._tileable_ref_counts = tcounts,
                             !._chunk_ref_counts = ccounts],
               !.metas[tracker._session_id] =
                   [k \in DOMAIN @ \ {d.key : d \in {r \in requests :
                                                 r.api = "meta"}} |-> @[k]],
               !.call = s,
               !.issued = requests,
               !.calls = @ + 1]
        /\ UNCHANGED trackerVars

SessionTrack(s, tileable_key, chunk_keys) ==
    LET tracker == TrackerOf(s)
    IN  TrackerCall(s, track(tracker._tileable_key_to_chunk_keys,
                             tileable_key, chunk_keys),
                    tracker._tileable_ref_counts, tracker._chunk_ref_counts,
                    <<>>)

SessionIncrefChunks(s, chunk_keys) ==
    LET tracker == TrackerOf(s)
    IN  TrackerCall(s, tracker._tileable_key_to_chunk_keys,
                    tracker._tileable_ref_counts,
                    incref_chunks(tracker._chunk_ref_counts, chunk_keys),
                    <<>>)

SessionDecrefChunks(s, chunk_keys) ==
    LET tracker == TrackerOf(s)
        r == _get_remove_chunk_keys(tracker._chunk_ref_counts, chunk_keys)
    IN  TrackerCall(s, tracker._tileable_key_to_chunk_keys,
                    tracker._tileable_ref_counts, r.counts, r.to_remove)

SessionIncrefTileables(s, tileable_keys) ==
    LET tracker == TrackerOf(s)
        r == incref_tileables(tracker._tileable_key_to_chunk_keys,
                              tracker._tileable_ref_counts,
                              tracker._chunk_ref_counts, tileable_keys)
    IN  TrackerCall(s, tracker._tileable_key_to_chunk_keys, r.tcounts,
                    r.ccounts, <<>>)

SessionDecrefTileables(s, tileable_keys) ==
    LET tracker == TrackerOf(s)
        r == decref_tileables(tracker._tileable_key_to_chunk_keys,
                              tracker._tileable_ref_counts,
                              tracker._chunk_ref_counts, tileable_keys)
    IN  TrackerCall(s, tracker._tileable_key_to_chunk_keys, r.tcounts,
                    r.ccounts, r.to_remove)

NextTrackers ==
    \/ \E s \in Sessions, ks \in ChunkLists : SessionTrack(s, "t1", ks)
    \/ \E s \in Sessions, ks \in ChunkBatches : SessionIncrefChunks(s, ks)
    \/ \E s \in Sessions, ks \in ChunkBatches : SessionDecrefChunks(s, ks)
    \/ \E s \in Sessions, t \in TileableKeys :
           SessionIncrefTileables(s, <<t>>)
    \/ \E s \in Sessions, t \in TileableKeys :
           SessionDecrefTileables(s, <<t>>)

SpecTrackers == InitTrackers /\ [][NextTrackers]_vars

\* ------------------------------- clients and a ledger of direct updates

\* The clients of a session send their messages in any order; the ledger
\* notes, for each chunk, the direct increments less the direct decrements
\* (those of incref_chunks and decref_chunks), and whether a call has
\* failed; the deliveries are followed up to the first call that fails.
\* Each tileable is tracked by one message.
InitDirect ==
    /\ InitTracker
    /\ scenario = [name |-> "direct",
                   direct |-> [k \in ChunkKeys |-> 0],
                   failed |-> FALSE]

DirectNoted(sign, chunk_keys) ==
    /\ ~scenario.failed
    /\ \A k \in ChunkKeys :
           /\ scenario.direct[k] + sign * Occurrences(chunk_keys, k) <= MaxOps
           /\ scenario.direct[k] + sign * Occurrences(chunk_keys, k) >= -MaxOps
    /\ scenario' = [scenario EXCEPT
           !.direct = [k \in ChunkKeys |->
                          @[k] + sign * Occurrences(chunk_keys, k)],
           !.failed = result' # "none"]

CascadeNoted ==
    /\ ~scenario.failed
    /\ scenario' = [scenario EXCEPT !.failed = result' # "none"]

DirectIncrefChunks(chunk_keys) ==
    OnIncrefChunks(chunk_keys) /\ DirectNoted(1, chunk_keys)

DirectDecrefChunks(chunk_keys) ==
    OnDecrefChunks(chunk_keys) /\ DirectNoted(-1, chunk_keys)

CascadeIncrefTileables(tileable_keys) ==
    OnIncrefTileables(tileable_keys) /\ CascadeNoted

CascadeDecrefTileables(tileable_keys) ==
    OnDecrefTileables(tileable_keys) /\ CascadeNoted

NextDirect ==
    \/ \E t \in TileableKeys, ks \in ChunkLists : ClientTrack(t, ks)
    \/ \E ks \in ChunkBatches : DirectIncrefChunks(ks)
    \/ \E ks \in ChunkBatches : DirectDecrefChunks(ks)
    \/ \E ts \in TileableBatches : CascadeIncrefTileables(ts)
    \/ \E ts \in TileableBatches : CascadeDecrefTileables(ts)
    \/ \E i \in Slots : RemovalGetMeta(i)
    \/ \E i \in Slots : RemovalDelMeta(i)

SpecDirect == InitDirect /\ [][NextDirect]_vars

\* Sum of f over the keys of S.
RECURSIVE Sum(_, _)
Sum(f, S) ==
    IF S = {} THEN 0
    ELSE LET x == CHOOSE x \in S : TRUE IN f[x] + Sum(f, S \ {x})

\* ------------------------------------------------------------------ claims

\* C1: in every reachable state, whatever calls were made and however they
\* ended, every entry of the chunk refcount table is >= 0.
C1_ChunkCountsNeverNegative ==
    \A k \in DOMAIN chunk_ref_counts : chunk_ref_counts[k] >= 0

\* The i-th decrement of the list meets a count that the earlier decrements
\* of the same list have brought to 0 (or found at 0).
DecrementsAtZero(counts, chunk_keys) ==
    \E i \in 1..Len(chunk_keys) :
        Get(counts, chunk_keys[i])
            - Cardinality({j \in 1..(i - 1) : chunk_keys[j] = chunk_keys[i]})
        <= 0

EndsInAssertion(chunk_keys) ==
    /\ result' = "AssertionError"
    /\ removals' = removals
    /\ \E k \in Range(chunk_keys) : chunk_ref_counts'[k] < 0

\* C2: a decref_chunks or decref_tileables call that decrements a chunk
\* whose count is 0 ends in an AssertionError: it does not return a removal,
\* and the count is not held at 0 (it is left below 0).
\* (A decref leaves the tracking table as it is: the steps that change it
\* are no decref, and are not looked at further.)
C2_DecrefAtZeroRaises ==
    [][UNCHANGED tileable_key_to_chunk_keys =>
          /\ \A ks \in ChunkBatches :
                 DecrementsAtZero(chunk_ref_counts, ks) /\ DecrefChunks(ks)
                     => EndsInAssertion(ks)
          /\ \A ts \in TileableBatches :
                 LET ks == ReachedChunks(tileable_key_to_chunk_keys, ts) IN
                 DecrementsAtZero(chunk_ref_counts, ks) /\ DecrefTileables(ts)
                     => EndsInAssertion(ks)]_vars

\* A decref has ended in an AssertionError with a chunk count below 0.
C2_Witness ==
    /\ result = "AssertionError"
    /\ \E k \in DOMAIN chunk_ref_counts : chunk_ref_counts[k] < 0

\* C3: whenever a removal returned by a decref issues a storage delete or a
\* metadata delete for a chunk key, the refcount of that chunk is 0 at that
\* moment.
C3_DeleteOnlyAtZero ==
    [][\A i \in Slots :
          (i \in DOMAIN removals /\ removals[i].kind = "decref") =>
              /\ RemovalDelete(i) =>
                     \A k \in Range(removals[i].batches[removals[i].sent + 1].keys) :
                         chunk_ref_counts[k] = 0
              /\ RemovalDelMeta(i) =>
                     \A k \in Range(removals[i].keys) :
                         chunk_ref_counts[k] = 0]_vars

C5_IncrefUntrackedChangesNothing ==
    [][\A ts \in TileableBatches :
          (/\ IncrefTileables(ts)
           /\ \E i \in 1..Len(ts) : ts[i] \notin DOMAIN tileable_key_to_chunk_keys)
          => /\ result' = "TileableNotTracked"
             /\ tileable_ref_counts' = tileable_ref_counts
             /\ chunk_ref_counts' = chunk_ref_counts]_vars

\* C6: decref_tileables(keys) with an untracked key among keys raises
\* TileableNotTracked, changes no tileable count and no chunk count, and
\* returns no removal.
C6_DecrefUntrackedChangesNothing ==
    [][\A ts \in TileableBatches :
          (/\ DecrefTileables(ts)
           /\ \E i \in 1..Len(ts) : ts[i] \notin DOMAIN tileable_key_to_chunk_keys)
          => /\ result' = "TileableNotTracked"
             /\ tileable_ref_counts' = tileable_ref_counts
             /\ chunk_ref_counts' = chunk_ref_counts
             /\ removals' = removals]_vars

\* C7: every entry of the tileable refcount table is >= 0 in every
\* reachable state; in particular no call has returned without an error and
\* left a tileable count below 0.
C7_TileableCountsNeverNegative ==
    /\ \A t \in DOMAIN tileable_ref_counts : tileable_ref_counts[t] >= 0
    /\ result = "none" =>
           \A t \in DOMAIN tileable_ref_counts : tileable_ref_counts[t] >= 0

\* What a removal has issued so far.
StorageIssued(r, j) == j <= r.sent
MetaIssued(r) == r.pc = "done"
Ended(r) == r.pc \in {"done", "raised"}

\* The addresses a removal groups a key under.
AddressesOf(r, k) ==
    {r.batches[j].addr : j \in {x \in 1..Len(r.batches) :
                                   k \in Range(r.batches[x].keys)}}

\* The keys of the storage delete that raised, if one did.
FailedKeys(r) ==
    IF r.pc = "raised" THEN Range(r.batches[r.sent + 1].keys) ELSE {}

\* C8: once the removal of the teardown has ended, every chunk that had a
\* positive count and a meta entry when it started has had its storage
\* delete issued at each of its addresses and its metadata delete issued,
\* each exactly once in the life of the session.  (A chunk whose own
\* storage delete failed is not held against the claim.)
C8_TeardownRemovesOnce ==
    \A i \in DOMAIN removals :
        (removals[i].kind = "teardown" /\ Ended(removals[i])) =>
            \A k \in Range(removals[i].keys) \ FailedKeys(removals[i]) :
                /\ meta_deletes[k] = 1
                /\ \A a \in AddressesOf(removals[i], k) :
                       storage_deletes[<<a, k>>] = 1

\* C9: a tracking entry never changes once inserted: no step changes the
\* chunk list recorded for a tracked tileable key.
C9_TrackingImmutable ==
    [][\A t \in DOMAIN tileable_key_to_chunk_keys :
          /\ t \in DOMAIN tileable_key_to_chunk_keys'
          /\ tileable_key_to_chunk_keys'[t] = tileable_key_to_chunk_keys[t]]_vars

\* C10: a removal whose storage delete failed on one address has still
\* issued, for every key that is not in the failed request, the storage
\* delete at each address holding the key and the metadata delete.
C10_FailureSparesOtherKeys ==
    \A i \in DOMAIN removals :
        removals[i].pc = "raised" =>
            LET r == removals[i] IN
            \A k \in Range(r.keys) \ FailedKeys(r) :
                /\ \A j \in 1..Len(r.batches) :
                       k \in Range(r.batches[j].keys) => StorageIssued(r, j)
                /\ MetaIssued(r)

\* C11: a candidate key of a removal that has no metadata entry is skipped
\* without error: the removal goes on, the key is in no storage delete and
\* not among the metadata deletes; every other candidate key, which has
\* metadata, is in the storage delete of each address of its bands and among
\* the metadata deletes.  A delete step issues the deletes of its keys and
\* no other.
C11_MissingMetaSkipped ==
    [][\A i \in Slots :
          i \in DOMAIN removals =>
              /\ RemovalGetMeta(i) =>
                     LET r == removals'[i] IN
                     /\ r.pc \in {"delete", "del_meta"}
                     /\ \A k \in Range(removals[i].keys) \ DOMAIN meta :
                            /\ k \notin Range(r.keys)
                            /\ \A j \in 1..Len(r.batches) :
                                   k \notin Range(r.batches[j].keys)
                     /\ \A k \in Range(removals[i].keys) \cap DOMAIN meta :
                            /\ k \in Range(r.keys)
                            /\ \A b \in 1..Len(meta[k].bands) :
                                   \E j \in 1..Len(r.batches) :
                                       /\ r.batches[j].addr = meta[k].bands[b][1]
                                       /\ k \in Range(r.batches[j].keys)
              /\ RemovalDelete(i) =>
                     LET batch == removals[i].batches[removals[i].sent + 1] IN
                     \A p \in DOMAIN storage_deletes :
                         IF p[1] = batch.addr /\ p[2] \in Range(batch.keys)
                         THEN storage_deletes'[p] >= 1
                         ELSE storage_deletes'[p] = storage_deletes[p]
              /\ RemovalDelMeta(i) =>
                     \A k \in DOMAIN meta_deletes :
                         IF k \in Range(removals[i].keys)
                         THEN meta_deletes'[k] >= 1
                         ELSE meta_deletes'[k] = meta_deletes[k]]_vars

\* The removal of the teardown has ended without error; of two chunks of
\* positive count it skipped the one with no metadata entry and deleted the
\* other.
C11_Witness ==
    \E i \in DOMAIN removals :
        /\ removals[i].kind = "teardown"
        /\ removals[i].pc = "done"
        /\ \E k1, k2 \in ChunkKeys :
               /\ chunk_ref_counts[k1] > 0 /\ chunk_ref_counts[k2] > 0
               /\ meta_deletes[k1] = 0
               /\ \A a \in Addresses : storage_deletes[<<a, k1>>] = 0
               /\ k1 \notin Range(removals[i].keys)
               /\ k2 \in Range(removals[i].keys)
               /\ meta_deletes[k2] = 1
               /\ \E a \in Addresses : storage_deletes[<<a, k2>>] = 1

\* C12: the count updates of the messages of several clients do not
\* interleave: in every order of delivery, as long as no decref has failed,
\* the count of each chunk is the number of increments applied to it minus
\* the number of decrements applied to it.
C12_CountsAreIncsMinusDecs ==
    ~scenario.failed =>
        \A k \in ChunkKeys :
            chunk_ref_counts[k] = scenario.incs[k] - scenario.decs[k]

\* Chunk messages and tileable messages have both counted a chunk up and
\* down, one of them naming it twice, and no decref has failed.
C12_Witness ==
    /\ ~scenario.failed
    /\ \E k \in ChunkKeys :
           /\ scenario.incs[k] = MaxOps
           /\ scenario.decs[k] >= 2
           /\ chunk_ref_counts[k] = scenario.incs[k] - scenario.decs[k]
    /\ \E t \in DOMAIN tileable_ref_counts : tileable_ref_counts[t] > 0

\* C13: in every reachable state (after decrefs to zero, after failed
\* decrefs, after lookups of keys the table did not hold), every key that
\* get_all_chunk_ref_counts() reports has a count > 0.
C13_AllCountsReportedPositive ==
    LET reported == get_all_chunk_ref_counts(chunk_ref_counts) IN
    \A k \in DOMAIN reported : reported[k] > 0

\* A query has returned while the table holds an entry below 0 (left by a
\* failed decref), an entry of 0 stored in it, or both kinds, next to an
\* entry above 0 that is reported alone.
C13_Witness ==
    /\ result = "returned"
    /\ \E k1, k2 \in DOMAIN chunk_ref_counts :
           /\ chunk_ref_counts[k1] <= 0
           /\ chunk_ref_counts[k2] > 0
           /\ DOMAIN get_all_chunk_ref_counts(chunk_ref_counts) = {k2}

\* C14: get_chunk_ref_counts and get_tileable_ref_counts return 0 for every
\* key never incremented, and are read-only: a call changes the count
\* reported for no key, not the result of get_all_chunk_ref_counts, not the
\* tracked tileables, and issues no deletion.
C14_LookupsReadOnlyDefaultZero ==
    [][/\ \A ks \in ChunkBatches :
             GetChunkRefCounts(ks) =>
                 LET r == get_chunk_ref_counts(chunk_ref_counts, ks) IN
                 /\ \A i \in 1..Len(ks) :
                        ks[i] \notin scenario.incremented => r.ret[i] = 0
                 /\ \A k \in ChunkKeys :
                        Get(chunk_ref_counts', k) = Get(chunk_ref_counts, k)
                 /\ get_all_chunk_ref_counts(chunk_ref_counts')
                        = get_all_chunk_ref_counts(chunk_ref_counts)
                 /\ UNCHANGED <<tileable_ref_counts, tileable_key_to_chunk_keys,
                                removals, storage_deletes, meta_deletes, meta>>
       /\ \A ts \in TileableBatches :
             GetTileableRefCounts(ts) =>
                 LET r == get_tileable_ref_counts(tileable_ref_counts, ts) IN
                 /\ \A i \in 1..Len(ts) :
                        ts[i] \notin DOMAIN tileable_key_to_chunk_keys
                            => r.ret[i] = 0
                 /\ \A t \in TileableKeys :
                        Get(tileable_ref_counts', t) = Get(tileable_ref_counts, t)
                 /\ UNCHANGED <<chunk_ref_counts, tileable_key_to_chunk_keys,
                                removals, storage_deletes, meta_deletes, meta>>
      ]_vars

\* C15: when a tileable becomes unreachable, each live session the tileable
\* was attached to receives exactly one decref of its key, however many
\* times the tileable was attached to that session; no other session
\* receives one.
C15_OneDecrefPerSession ==
    [][\A t \in Tileables :
          DropTileable(t) =>
              \A s \in Sessions :
                  scenario'.decrefs[<<s, t>>] =
                      IF /\ s \in scenario.live
                         /\ t \in DOMAIN scenario._tileable_to_sessions
                         /\ s \in Range(scenario._tileable_to_sessions[t])
                      THEN 1 ELSE 0]_vars

Terminal == {"SUCCEEDED", "FAILED"}

\* C16: a submitted task goes SUBMITTED -> POLLING -> {SUCCEEDED, FAILED}.
\* execute submits the graph exactly once and returns the handle without
\* waiting for a terminal result (the watcher has not ended when it
\* returns); a poll that returns no result leaves the watcher in POLLING;
\* SUCCEEDED and FAILED are entered only by a poll that returned a terminal
\* result; from SUCCEEDED or FAILED the watcher sends no further wait_task.
C16_TaskStateMachine ==
    /\ [](/\ scenario.submits <= 1
          /\ scenario.execute = "returned" => scenario.submits = 1
          /\ TaskState \in Terminal =>
                 /\ scenario.task_result # None
                 /\ scenario.task.state \in {"succeeded", "failed"})
    /\ [][/\ ExecuteReturn => TaskState' = "SUBMITTED"
          /\ TaskState' # TaskState =>
                 \/ TaskState = "SUBMITTED" /\ TaskState' = "POLLING"
                 \/ /\ TaskState = "POLLING" /\ TaskState' \in Terminal
                    /\ WatcherWaitTask
                    /\ wait_task(scenario.task) # None
          /\ (WatcherWaitTask /\ wait_task(scenario.task) = None) =>
                 TaskState' = "POLLING"
          /\ TaskState \in Terminal => ~WatcherStart /\ ~WatcherWaitTask
         ]_vars

\* The watcher has ended in SUCCEEDED after more than one poll.
C16_Witness ==
    /\ scenario.watcher = "returned"
    /\ scenario.polls = 2
    /\ scenario.submits = 1

\* C17: when a task has succeeded the progress read through the handle is
\* 1.0; once the watcher has returned, each submitted tileable is mapped to
\* the fetch tileable the task service returned at its position and has
\* the params of that fetch tileable, and there are as many fetch tileables
\* as submitted tileables.
C17_SuccessPublishesFetchTileables ==
    /\ TaskState = "SUCCEEDED" => scenario.progress = 100
    /\ scenario.watcher = "returned" =>
           LET tileables == scenario.tileables
               fetch_tileables == get_fetch_tileables(tileables)
           IN  /\ Len(fetch_tileables) = Len(tileables)
               /\ \A i \in 1..Len(tileables) :
                      /\ tileables[i] \in DOMAIN scenario._tileable_to_fetch
                      /\ scenario._tileable_to_fetch[tileables[i]]
                             = fetch_tileables[i]
                      /\ scenario.params[tileables[i]]
                             = ParamsOf(fetch_tileables[i])

\* The watcher of a task of two tileables has returned.
C17_Witness ==
    /\ scenario.watcher = "returned"
    /\ Len(scenario.tileables) = 2
    /\ scenario.task.state = "succeeded"

\* C18: when the remote execution raised E, what awaiting the handle raises
\* is a wrapped execution error whose cause is E, with the remote
\* traceback.
C18_FailureIsWrapped ==
    scenario.watcher = "raised" =>
        /\ scenario.exception.type = "ExecutionFailed"
        /\ scenario.exception.cause = scenario.task.error.type
        /\ scenario.exception.traceback = "remote"

\* C19: the handle fails only after wait_task has returned a terminal
\* result carrying an error; while the polls have returned no result the
\* handle is neither failed nor completed; a failed task publishes no fetch
\* tileable and changes the params of no tileable.
C19_FailureOnlyOnTerminalResult ==
    /\ scenario.watcher = "raised" =>
           /\ scenario.task_result # None
           /\ scenario.task_result.error # NoException
           /\ scenario.task.state = "failed"
           /\ scenario.exception.type = scenario.task.error.type
    /\ scenario.task_result = None =>
           scenario.watcher \notin {"raised", "returned", "get_fetch_tileables"}
    /\ scenario.task.state = "failed" =>
           /\ scenario._tileable_to_fetch = EmptyDict
           /\ \A t \in Tileables : scenario.params[t] = BuiltParams(t)

\* The watcher has raised the error of a failed task after polls that
\* returned no result.
C19_Witness ==
    /\ scenario.watcher = "raised"
    /\ scenario.polls = 2
    /\ scenario.task.state = "failed"

\* C20: if the task service has a terminal result for the task, the
\* watcher, scheduled fairly, eventually ends: the handle is completed or
\* failed.
C20_WatcherTerminates ==
    (scenario.task.state \in {"succeeded", "failed"})
        ~> (scenario.watcher \in {"returned", "raised"})

\* The watcher has ended for a task that ended before execute returned the
\* handle or while the watcher was polling.
C20_Witness ==
    /\ scenario.watcher \in {"returned", "raised"}
    /\ scenario.task.state \in {"succeeded", "failed"}
    /\ scenario.polls >= 1

\* C21: when the caller has supplied an overall timeout and the timeout has
\* passed with no terminal result of the task, the watcher is not polling
\* and the call has failed with a timeout error.
C21_TimeoutHonored ==
    (/\ "timeout" \in scenario.kwargs
     /\ scenario.elapsed > TimeoutTicks
     /\ scenario.task_result = None)
        => /\ scenario.watcher \notin {"wait_task", "get_task_progress"}
           /\ \/ scenario.exception.type = "TimeoutError"
              \/ scenario.execute_exception.type = "TimeoutError"

\* C22 as stated: after the watcher of a task was cancelled, a fetch that
\* looks up a tileable submitted in that task fails.
C22_FetchAfterCancelFails ==
    [][(/\ scenario.watcher = "cancelled"
        /\ FetchLooksUp(1)
        /\ scenario.fetch.args[1] \in Range(scenario.tileables))
           => scenario'.fetch.state = "raised"]_vars

\* C22, amended: a cancelled watcher records nothing, no part of its
\* task's fetch tileables and no params: what is recorded is what the
\* watchers that ran to their end recorded.  After the cancellation a fetch
\* of a tileable submitted in the task fails with an error unless such a
\* watcher recorded the tileable, and then it gathers the whole data
\* recorded for it.
C22_CancelledWatcherRecordsNothing ==
    /\ [](/\ DOMAIN scenario._tileable_to_fetch = Published
          /\ \A t \in Tileables :
                 /\ t \in Published =>
                        /\ scenario._tileable_to_fetch[t] = FetchOf(t)
                        /\ scenario.params[t] = ParamsOf(FetchOf(t))
                 /\ t \notin Published =>
                        scenario.params[t] = BuiltParams(t))
    /\ [][(/\ scenario.watcher = "cancelled"
           /\ FetchLooksUp(1)
           /\ scenario.fetch.args[1] \in Range(scenario.tileables))
              => IF scenario.fetch.args[1] \in Published
                 THEN /\ scenario'.fetch.state # "raised"
                      /\ scenario'.fetch.data
                             = <<MergedData(scenario.fetch.args[1])>>
                 ELSE /\ scenario'.fetch.state = "raised"
                      /\ scenario'.fetch.data = <<>>]_vars

\* The watcher was cancelled after the task had succeeded, and the fetch of
\* a tileable of the task has failed.
C22_Witness ==
    /\ scenario.watcher = "cancelled"
    /\ scenario.task.state = "succeeded"
    /\ scenario.fetch.state = "raised"
    /\ scenario.fetch.session = "s1"
    /\ scenario.fetch.args[1] \in Range(scenario.tileables)
    /\ scenario._tileable_to_fetch = EmptyDict

\* C23: fetch gathers data only for tileables with a recorded fetch
\* tileable; looking up a tileable that has none and whose op is not an
\* index op raises ValueError, with no remote call for it and no data
\* returned; a tileable for which no session is found fails with ValueError
\* and the fetch of no session is entered.
C23_UnexecutedFetchFails ==
    /\ [](/\ \A j \in 1..Len(scenario.fetch.data) :
                 scenario.fetch.args[j] \in DOMAIN scenario._tileable_to_fetch
          /\ (scenario.fetch.state # "none"
              /\ scenario.fetch.session = NoSession) =>
                 /\ scenario.fetch.state = "raised"
                 /\ scenario.fetch.exception.type = "ValueError"
                 /\ scenario.fetch.i = 0
                 /\ scenario.fetch.meta_lookups = 0
                 /\ scenario.fetch.storage_gets = 0)
    /\ [][\A i \in 1..2 :
            (/\ FetchLooksUp(i)
             /\ scenario.fetch.args[i] \notin
                    DOMAIN scenario._tileable_to_fetch
             /\ op(scenario.fetch.args[i]) \notin slice_op_types)
                => /\ scenario'.fetch.state = "raised"
                   /\ scenario'.fetch.exception.type = "ValueError"
                   /\ scenario'.fetch.data = scenario.fetch.data
                   /\ scenario'.fetch.meta_lookups
                          = scenario.fetch.meta_lookups
                   /\ scenario'.fetch.storage_gets
                          = scenario.fetch.storage_gets]_vars

\* The fetch of a tileable whose execution failed has raised ValueError.
C23_Witness ==
    /\ scenario.fetch.state = "raised"
    /\ scenario.fetch.session = "s1"
    /\ scenario.fetch.exception.cause = "Cannot fetch unexecuted tileable"
    /\ scenario.watcher = "raised"
    /\ scenario.fetch.args[scenario.fetch.i] \in Range(scenario.tileables)

\* C24: looking up an index of an executed tileable whose index components
\* are all slices or integers does not fail: fetch gathers the data for it.
C24_SliceFetchReturns ==
    [][\A i \in 1..2 :
         (/\ FetchLooksUp(i)
          /\ SliceOfExecuted(scenario._tileable_to_fetch,
                             scenario.fetch.args[i]))
             => /\ scenario'.fetch.state # "raised"
                /\ Len(scenario'.fetch.data) = Len(scenario.fetch.data) + 1]_vars

\* C25: looking up a tileable whose lineage has an index component that is
\* neither a slice nor an integer raises ValueError, at whatever depth the
\* component is, with no remote call for it and no data returned.
C25_FancyIndexRejected ==
    [][\A i \in 1..2 :
         (/\ FetchLooksUp(i)
          /\ FancyInLineage(scenario._tileable_to_fetch,
                            scenario.fetch.args[i]))
             => /\ scenario'.fetch.state = "raised"
                /\ scenario'.fetch.exception.type = "ValueError"
                /\ scenario'.fetch.data = scenario.fetch.data
                /\ scenario'.fetch.meta_lookups = scenario.fetch.meta_lookups
                /\ scenario'.fetch.storage_gets = scenario.fetch.storage_gets]_vars

\* The fetch of a slice of a fancy index of an executed tileable was
\* rejected.
C25_Witness ==
    /\ scenario.fetch.state = "raised"
    /\ scenario.fetch.args = <<"a_f_s">>
    /\ scenario.fetch.exception.cause = "Only support fetch data slices"
    /\ "a" \in DOMAIN scenario._tileable_to_fetch

\* C26: a fetch that has failed the validation of one of its arguments has
\* made no remote call: no lookup in the Metadata Directory, no get of
\* Storage Access, for any argument.
C26_ValidationBeforeRemoteCalls ==
    (/\ scenario.fetch.state = "raised"
     /\ scenario.fetch.exception.type = "ValueError")
        => /\ scenario.fetch.meta_lookups = 0
           /\ scenario.fetch.storage_gets = 0

\* C27: a destroy() that returns has deleted the session from the registry;
\* once destroy() has returned, the watcher of the session's task sends no
\* further wait_task or get_task_progress; destroy() of the session the
\* registry knows returns, whether or not a tileable was fetched.
C27_DestroyCancelsWatchers ==
    /\ [][(scenario'.destroys # scenario.destroys
           /\ scenario'.destroy = "returned")
              => "s1" \notin scenario'.registry]_vars
    /\ [][(scenario.destroy = "returned"
           /\ scenario'.watcher # scenario.watcher)
              => scenario'.watcher \notin {"wait_task", "get_task_progress"}]_vars
    /\ [][(scenario'.destroys # scenario.destroys
           /\ "s1" \in scenario.registry)
              => scenario'.destroy = "returned"]_vars

\* C28: while the cluster does not know a session id, deleting a session
\* with that id fails with a value error that names the id, so that a
\* second destroy() fails; and so does opening a session with the id of a
\* session that was destroyed.
C28_UnknownSessionFails ==
    /\ [][(scenario'.destroys # scenario.destroys
           /\ "s1" \notin scenario.registry)
              => /\ scenario'.destroy = "raised"
                 /\ scenario'.destroy_exception = ValueError("s1")]_vars
    /\ [][\A id \in Sessions :
            (/\ scenario'.api # scenario.api
             /\ scenario'.api.id = id
             /\ id \notin scenario.registry
             /\ \/ scenario'.api.op = "delete_session"
                \/ id = "s1" /\ scenario.destroy = "returned")
                => scenario'.api.exception = ValueError(id)]_vars

\* C29: a put of an object at MEMORY through the tunnel is answered without
\* error, whether or not the key had a metadata entry, and the get of the
\* key that follows returns the object.
C29_PutGetRoundTrip ==
    (scenario.phase \in {"put", "got"} /\ scenario.passed.name = "MEMORY")
        => /\ scenario.put_exception = NoException
           /\ scenario.phase = "got" =>
                  /\ scenario.get_exception = NoException
                  /\ scenario.got = scenario.obj

\* C30: the level the node-side put receives is the level the client
\* passed, for every level, and MEMORY for a request without level
\* parameter; the level is read from the request without error.
C30_LevelPassedThrough ==
    scenario.phase \in {"put", "got"} =>
        /\ scenario.put_exception.type # "AttributeError"
        /\ scenario.put_exception = NoException =>
               /\ scenario.passed # NoLevel =>
                      scenario.received = scenario.passed
               /\ scenario.argument = NoArgument =>
                      scenario.received.name = "MEMORY"
               /\ scenario.storage[scenario.meta[scenario.key][1][1]]
                      [scenario.key].level = scenario.received
               /\ scenario.info.level = scenario.received

\* A put at DISK has reached the node that holds the key.
C30_Witness ==
    /\ scenario.phase = "put"
    /\ scenario.passed.name = "DISK"
    /\ scenario.put_exception = NoException
    /\ scenario.received.name = "DISK"


\* C31: a read through the tunnel after a put that stored the object
\* succeeds; it goes by GET when the client passed no conditions and by
\* POST otherwise; the node-side get receives exactly the conditions the
\* client passed, none for a read without conditions; and a POST request
\* without body is served as a read of the whole object.
C31_ConditionsTravel ==
    (scenario.phase = "got" /\ scenario.put_exception = NoException) =>
        /\ scenario.get_exception = NoException
        /\ scenario.got = scenario.obj
        /\ scenario.get_received = scenario.conditions
        /\ scenario.conditions # NoConditions => scenario.method = "POST"


\* C32: executing again a tileable the session has executed changes
\* nothing of what fetch returns for it (its recorded fetch tileable stays
\* the same), and an execute whose tileables have all been executed makes
\* no new submission to the task service.
C32_RerunSubmitsNothing ==
    [][LET executed == DOMAIN scenario._tileable_to_fetch
       IN  /\ \A t \in executed :
                  /\ t \in DOMAIN scenario'._tileable_to_fetch
                  /\ scenario'._tileable_to_fetch[t] =
                         scenario._tileable_to_fetch[t]
           /\ Range(scenario.tileables) \subseteq executed =>
                  scenario'.submits = scenario.submits]_vars


\* C33: a call on the tracker of one session leaves the tracking entries
\* and the counts of the tracker of every other session, and the metadata
\* of every other session, as they were, and every delete the call issues
\* carries the id of the session of the call.
C33_TrackersIndependent ==
    [][\A b \in Sessions \ {scenario'.call} :
           /\ scenario'.actors[gen_uid(b)] = scenario.actors[gen_uid(b)]
           /\ scenario'.metas[b] = scenario.metas[b]
           /\ \A d \in scenario'.issued : d.session_id # b]_vars

\* Both sessions count the chunk c1, and the call of one of them has
\* brought its own count to 0 and issued the deletes of c1.
C33_Witness ==
    /\ scenario.call = "s1"
    /\ TrackerOf("s1")._chunk_ref_counts["c1"] = 0
    /\ TrackerOf("s2")._chunk_ref_counts["c1"] = 1
    /\ \E d \in scenario.issued : d.api = "storage" /\ d.key = "c1"
    /\ \E d \in scenario.issued : d.api = "meta" /\ d.key = "c1"


\* C34: a track(t, C) leaves the tracker in a state that a second
\* track(t, C) would not change, and it changes no tileable count, no chunk
\* count, and issues no deletion (no removal is created, no delete sent).
C34_TrackIdempotent ==
    [][\A t \in TileableKeys, ks \in ChunkLists :
           Track(t, ks) =>
               /\ track(tileable_key_to_chunk_keys', t, ks) =
                      tileable_key_to_chunk_keys'
               /\ tileable_key_to_chunk_keys'[t] = ks
               /\ tileable_ref_counts' = tileable_ref_counts
               /\ chunk_ref_counts' = chunk_ref_counts
               /\ removals' = removals
               /\ storage_deletes' = storage_deletes
               /\ meta_deletes' = meta_deletes]_vars

\* t1 is tracked with two chunks while it and its chunks are counted.
C34_Witness ==
    /\ "t1" \in DOMAIN tileable_key_to_chunk_keys
    /\ tileable_key_to_chunk_keys["t1"] = <<"c1", "c2">>
    /\ tileable_ref_counts["t1"] = 1
    /\ chunk_ref_counts["c1"] = 1
    /\ result = "none"


\* C35: whenever a call brings the count of a chunk that has a metadata
\* entry from a positive value to 0, the call returns a removal that lists
\* the chunk, also when a later key of the call makes it fail.
C35_NoLeak ==
    [][\A c \in ChunkKeys :
           (/\ chunk_ref_counts[c] > 0
            /\ chunk_ref_counts'[c] = 0
            /\ c \in DOMAIN meta) =>
               /\ Len(removals') > Len(removals)
               /\ c \in Range(removals'[Len(removals')].keys)]_vars


\* C36: the removal groups the keys that have metadata by node address:
\* one batch for each distinct address of their bands, holding exactly the
\* keys whose bands name the address; each batch is sent as one storage
\* delete request for exactly its keys; when the last batch has been sent
\* one metadata delete request covers exactly the keys that had metadata.
C36_DeletesGroupedByAddress ==
    [][\A i \in Slots :
          i \in DOMAIN removals =>
              /\ RemovalGetMeta(i) =>
                     LET r == removals'[i]
                         kept == Range(removals[i].keys) \cap DOMAIN meta
                         addrs(k) == {meta[k].bands[b][1] :
                                         b \in 1..Len(meta[k].bands)}
                     IN  /\ Range(r.keys) = kept
                         /\ \A j1, j2 \in 1..Len(r.batches) :
                                r.batches[j1].addr = r.batches[j2].addr
                                    => j1 = j2
                         /\ {r.batches[j].addr : j \in 1..Len(r.batches)} =
                                UNION {addrs(k) : k \in kept}
                         /\ \A j \in 1..Len(r.batches) :
                                Range(r.batches[j].keys) =
                                    {k \in kept : r.batches[j].addr \in addrs(k)}
                         /\ r.sent = 0
              /\ RemovalDelete(i) =>
                     LET batch == removals[i].batches[removals[i].sent + 1]
                         sent == removals[i].sent + 1
                     IN  /\ \A p \in DOMAIN storage_deletes :
                                storage_deletes'[p] # storage_deletes[p] =>
                                    p[1] = batch.addr
                                        /\ p[2] \in Range(batch.keys)
                         /\ \A k \in Range(batch.keys) :
                                storage_deletes'[<<batch.addr, k>>] >= 1
                         /\ meta_deletes' = meta_deletes
                         /\ IF sent = Len(removals[i].batches)
                            THEN \/ i \notin DOMAIN removals'
                                 \/ removals'[i].pc = "del_meta"
                            ELSE removals'[i].pc = "delete"
                                     /\ removals'[i].sent = sent
              /\ RemovalDelMeta(i) =>
                     /\ removals[i].sent = Len(removals[i].batches)
                     /\ \A k \in DOMAIN meta_deletes :
                            meta_deletes'[k] # meta_deletes[k] <=>
                                (k \in Range(removals[i].keys)
                                     /\ meta_deletes[k] < 2)
                     /\ storage_deletes' = storage_deletes]_vars

\* A removal of two chunks that are both held at n1, one of them at n2
\* too, has sent its batch for n1 and has the batch for n2 to send.
C36_Witness ==
    \E i \in DOMAIN removals :
        /\ removals[i].pc = "delete"
        /\ removals[i].sent = 1
        /\ Len(removals[i].batches) = 2
        /\ Range(removals[i].batches[1].keys) = {"c1", "c2"}
        /\ Len(removals[i].batches[2].keys) = 1
        /\ storage_deletes[<<removals[i].batches[1].addr, "c1">>] = 1
        /\ storage_deletes[<<removals[i].batches[1].addr, "c2">>] = 1


\* The count a chunk has by the tileable counts and the direct updates.
ExpectedCount(tracking, tcounts, direct, c) ==
    Sum([t \in DOMAIN tracking |->
            tcounts[t] * Occurrences(tracking[t], c)], DOMAIN tracking)
        + direct[c]

\* C37: while no tracking entry has been overwritten and no call has
\* failed, the count of each chunk is the sum over the tracked tileables of
\* tileable count times occurrences of the chunk in the tileable's list,
\* plus the direct increments less the direct decrements; and a removal
\* that lists a chunk held through tileables only is returned only when
\* the count of every tileable that has the chunk is 0.
C37_CountsFollowTileables ==
    [][~scenario'.failed =>
           /\ \A c \in ChunkKeys :
                  chunk_ref_counts'[c] =
                      ExpectedCount(tileable_key_to_chunk_keys',
                                   tileable_ref_counts', scenario'.direct, c)
           /\ Len(removals') > Len(removals) =>
                  \A c \in Range(removals'[Len(removals')].keys) :
                      scenario'.direct[c] = 0 =>
                          \A t \in DOMAIN tileable_key_to_chunk_keys' :
                              c \in Range(tileable_key_to_chunk_keys'[t]) =>
                                  tileable_ref_counts'[t] = 0]_vars


\* C38: the key list of the removal a decref call returns names each chunk
\* once, and names only chunks whose count the call has brought from a
\* positive value to 0: a chunk left with a count above 0 is not in it.
C38_RemovalListNamesOnce ==
    [][Len(removals') > Len(removals) =>
           LET keys == removals'[Len(removals')].keys
           IN  /\ \A i, j \in 1..Len(keys) : keys[i] = keys[j] => i = j
               /\ \A k \in Range(keys) :
                      /\ chunk_ref_counts[k] > 0
                      /\ chunk_ref_counts'[k] = 0]_vars

\* Two tileables that share the chunk c1 have been counted and decref'd
\* to 0, and the removal returned lists c1.
C38_Witness ==
    /\ DOMAIN tileable_key_to_chunk_keys = {"t1", "t2"}
    /\ "c1" \in Range(tileable_key_to_chunk_keys["t1"])
    /\ "c1" \in Range(tileable_key_to_chunk_keys["t2"])
    /\ tileable_ref_counts["t1"] = 0 /\ tileable_ref_counts["t2"] = 0
    /\ chunk_ref_counts["c1"] = 0
    /\ result = "none"
    /\ Len(removals) = 1
    /\ removals[1].pc = "get_meta"
    /\ "c1" \in Range(removals[1].keys)


\* C39: a metadata entry is deleted only by a removal that lists its key
\* and has had every one of its storage delete batches answered; a storage
\* delete batch that raises deletes no metadata entry and ends the
\* removal, which deletes none afterwards.
C39_MetaDeletedAfterStorage ==
    [][/\ \A k \in DOMAIN meta \ DOMAIN meta' :
              \E i \in DOMAIN removals :
                  LET r == removals[i]
                  IN  /\ RemovalDelMeta(i)
                      /\ k \in Range(r.keys)
                      /\ r.sent = Len(r.batches)
                      /\ \A j \in 1..Len(r.batches) :
                             \A x \in Range(r.batches[j].keys) :
                                 storage_deletes[<<r.batches[j].addr, x>>] >= 1
       /\ \A i \in DOMAIN removals :
              /\ RemovalDeleteRaises(i) =>
                     /\ meta' = meta
                     /\ meta_deletes' = meta_deletes
                     /\ IF removals[i].kind = "teardown"
                        THEN removals'[i].pc = "raised"
                        ELSE Len(removals') = Len(removals) - 1
              /\ removals[i].pc = "raised" =>
                     \E j \in DOMAIN removals' : removals'[j] = removals[i]]_vars

\* The removal of a decref has deleted the metadata of c2 after its
\* storage delete; the removal of the teardown has sent one of its two
\* batches for c1, the other has raised, and c1 keeps its metadata.
C39_Witness ==
    /\ meta_deletes["c2"] = 1
    /\ "c2" \notin DOMAIN meta
    /\ \E a \in Addresses : storage_deletes[<<a, "c2">>] = 1
    /\ \E i \in DOMAIN removals :
           /\ removals[i].pc = "raised"
           /\ removals[i].keys = <<"c1">>
           /\ removals[i].sent = 1
           /\ Len(removals[i].batches) = 2
    /\ "c1" \in DOMAIN meta
    /\ meta_deletes["c1"] = 0


\* C40: every step of the session, the watcher's, a fetch's or a
\* cancellation, either records nothing (no tileable gets a fetch
\* tileable or new params) or records all the tileables of the task, each
\* with the fetch tileable of its position and that fetch tileable's
\* params; during the first execution the recorded tileables are none or
\* all of the task's; and when the watcher has returned or raised the
\* remote error the progress reads 1.0.
C40_PublicationAtomic ==
    [][LET tileables == scenario.tileables
           fetch_tileables == get_fetch_tileables(tileables)
           recorded == {t \in Tileables :
                           \/ /\ t \in DOMAIN scenario'._tileable_to_fetch
                              /\ t \notin DOMAIN scenario._tileable_to_fetch
                           \/ scenario'.params[t] # scenario.params[t]}
       IN  /\ recorded # {} =>
                  \A i \in 1..Len(tileables) :
                      /\ tileables[i] \in DOMAIN scenario'._tileable_to_fetch
                      /\ scenario'._tileable_to_fetch[tileables[i]] =
                             fetch_tileables[i]
                      /\ scenario'.params[tileables[i]] =
                             ParamsOf(fetch_tileables[i])
           /\ scenario'.rounds = 0 =>
                  \/ /\ DOMAIN scenario'._tileable_to_fetch = {}
                     /\ \A t \in Tileables :
                            scenario'.params[t] = BuiltParams(t)
                  \/ /\ DOMAIN scenario'._tileable_to_fetch =
                            Range(scenario'.tileables)
                     /\ \A t \in Range(scenario'.tileables) :
                            scenario'.params[t] # BuiltParams(t)
           /\ (\/ scenario'.watcher = "returned"
               \/ /\ scenario'.watcher = "raised"
                  /\ scenario'.exception.traceback = "remote") =>
                  scenario'.progress = 100]_vars

\* A fetch called while the task of two tileables was running has failed,
\* and the watcher has then recorded both tileables.
C40_Witness ==
    /\ scenario.rounds = 0
    /\ Len(scenario.tileables) = 2
    /\ scenario.tileables[1] # scenario.tileables[2]
    /\ scenario.fetch.state = "raised"
    /\ scenario.fetch.args = <<scenario.tileables[2]>>
    /\ scenario.watcher = "returned"
    /\ DOMAIN scenario._tileable_to_fetch = Range(scenario.tileables)
    /\ scenario.progress = 100

====
